---- MODULE Spec2Model ----
(***************************************************************************)
(* taskerie: the execution engine of taskerie-core (service/mod.rs) and    *)
(* the thread/channel protocol of the front end (taskerie/src/main.rs).    *)
(*                                                                         *)
(* Text is a sequence of one-character strings, so that rendering an       *)
(* InterpolatedString is the insertion the code performs.  Offsets are     *)
(* 0-based as in the source.                                               *)
(***************************************************************************)
EXTENDS Integers, Sequences, FiniteSets, TLC

\* Most output lines one spawned process produces before end of stream.
MaxLines == 1

\* Most activations of run_task nested in one another that a run is
\* followed down to; the code sets no limit of its own.
MaxDepth == 4

----------------------------------------------------------------------------
(* model::ParamContext                                                     *)

ParamContext_default == [n \in {} |-> <<>>]

has(param_context, param_name) == param_name \in DOMAIN param_context

set(param_context, param_name, value) ==
    [n \in (DOMAIN param_context) \cup {param_name} |->
        IF n = param_name THEN value ELSE param_context[n]]

\* Option<&String>: <<>> is None, <<v>> is Some(v).
get(param_context, param_name) ==
    IF param_name \in DOMAIN param_context
    THEN <<param_context[param_name]>>
    ELSE <<>>

----------------------------------------------------------------------------
(* InterpolatedString::render                                              *)

\* String::insert_str(idx, value), idx a 0-based offset.
insert_str(s, idx, value) ==
    SubSeq(s, 1, idx) \o value \o SubSeq(s, idx + 1, Len(s))

Ok(v) == [ok |-> TRUE, val |-> v]
Err(e) == [ok |-> FALSE, err |-> e]

RECURSIVE render_parts(_, _, _, _)
render_parts(parts, param_context, rendered, acc) ==
    IF parts = <<>> THEN Ok(rendered)
    ELSE LET part == Head(parts)
             value == get(param_context, part.name)
         IN IF value = <<>>
            THEN Err(<<"Could not find value for param", part.name>>)
            ELSE render_parts(Tail(parts), param_context,
                              insert_str(rendered, part.start + acc, value[1]),
                              acc + Len(value[1]))

\* Mutant: a value without parts still needs a context that holds something.
Mutant_render_consults_context(self, param_context) ==
    IF self.parts = <<>>
    THEN IF DOMAIN param_context = {} THEN Err(<<"Could not find value for param">>)
         ELSE Ok(self.value)
    ELSE render_parts(self.parts, param_context, self.value, 0)

render(self, param_context) ==
    IF self.parts = <<>> THEN Ok(self.value)
    ELSE render_parts(self.parts, param_context, self.value, 0)

----------------------------------------------------------------------------
(* subprocess::ExitStatus, as far as the engine reads it                   *)

Exited(code) == <<"Exited", code>>
Undetermined == <<"Undetermined">>
\* process.wait() returned Err.
WaitError == <<"Err">>
success(status) == status = Exited(0)

----------------------------------------------------------------------------
(* The registries the runs are started on.  A Task is                      *)
(*   [working_directory, actions, on_success, on_failure, params];         *)
(* an Option is <<>> or a one-element sequence; an IndexMap is the         *)
(* sequence of its entries in insertion order.                             *)

Lit(text) == [value |-> text, parts |-> <<>>]
Var(before, name, after) ==
    [value |-> before \o after,
     parts |-> <<[name |-> name, start |-> Len(before)]>>]

Command(is) == [kind |-> "Command", command |-> is]
TaskCall(name, params) == [kind |-> "TaskCall", name |-> name, params |-> params]
Param(name, default) == [name |-> name, default |-> default]
Bind(name, is) == [name |-> name, value |-> is]

Task(wd, actions, on_success, on_failure, params) ==
    [working_directory |-> wd, actions |-> actions, on_success |-> on_success,
     on_failure |-> on_failure, params |-> params]

\* Directories that exist, with what canonicalize() resolves them to.
Canonical ==
    [p \in {<<".", "/">>, <<"w">>} |-> IF p = <<"w">> THEN <<"/", "w">> ELSE <<"/">>]

LeafShapes ==
    { \* two commands and both hooks
      Task(<<>>, <<Command(Lit(<<"a">>)), Command(Lit(<<"b">>))>>,
           <<Command(Lit(<<"s">>))>>, <<Command(Lit(<<"f">>))>>, <<>>),
      \* a default and two required parameters
      Task(<<>>, <<Command(Var(<<"e">>, "p", <<>>))>>, <<>>, <<>>,
           <<Param("x", <<<<"d">>>>), Param("p", <<>>), Param("q", <<>>)>>),
      \* a working directory that does not exist
      Task(<<Lit(<<"n">>)>>, <<Command(Lit(<<"a">>)), Command(Lit(<<"b">>))>>,
           <<>>, <<Command(Lit(<<"f">>))>>, <<>>),
      \* a working directory taken from a parameter, a command with a
      \* variable nobody declares
      Task(<<Var(<<>>, "p", <<>>)>>, <<Command(Var(<<"a">>, "u", <<>>))>>,
           <<>>, <<>>, <<Param("p", <<<<"n">>>>)>>),
      \* no action at all
      Task(<<>>, <<>>, <<Command(Lit(<<"s">>))>>, <<>>, <<>>),
      \* a working directory with a variable nobody declares
      Task(<<Var(<<>>, "u", <<>>)>>, <<Command(Lit(<<"a">>))>>,
           <<>>, <<Command(Lit(<<"f">>))>>, <<>>) }

MidShapes ==
    { \* passes both required parameters on, then runs a command
      Task(<<>>, <<TaskCall("leaf", <<Bind("p", Lit(<<"w">>)),
                                      Bind("q", Var(<<>>, "x", <<"2">>))>>),
                   Command(Var(<<"m">>, "x", <<>>))>>,
           <<Command(Lit(<<"s">>))>>, <<Command(Lit(<<"f">>))>>,
           <<Param("x", <<<<"1">>>>)>>),
      \* passes nothing
      Task(<<>>, <<TaskCall("leaf", <<>>), Command(Lit(<<"m">>))>>,
           <<>>, <<Command(Lit(<<"f">>))>>, <<Param("p", <<<<"w">>>>)>>),
      \* calls a task nobody defines
      Task(<<>>, <<Command(Lit(<<"m">>)), TaskCall("zz", <<>>),
                   Command(Lit(<<"k">>))>>,
           <<>>, <<Command(Lit(<<"f">>))>>, <<>>),
      \* a binding with a variable the caller does not have
      Task(<<>>, <<TaskCall("leaf", <<Bind("p", Var(<<>>, "u", <<>>))>>)>>,
           <<>>, <<>>, <<>>) }

TopShapes ==
    { Task(<<>>, <<TaskCall("mid", <<>>), Command(Var(<<"t">>, "x", <<>>))>>,
           <<Command(Lit(<<"s">>))>>, <<Command(Lit(<<"f">>))>>,
           <<Param("x", <<<<"9">>>>)>>),
      Task(<<>>, <<TaskCall("mid", <<Bind("x", Lit(<<"7">>))>>),
                   Command(Lit(<<"t">>))>>,
           <<>>, <<>>, <<>>) }

Registries ==
    { [n \in {"top", "mid", "leaf"} |->
         CASE n = "top" -> t [] n = "mid" -> m [] OTHER -> l] :
      t \in TopShapes, m \in MidShapes, l \in LeafShapes }

\* The names run_task_by_name is called with: every task, and a name no
\* registry defines.
RunNames == {"top", "mid", "leaf", "zz"}

----------------------------------------------------------------------------
(* State                                                                   *)

VARIABLES
    taskerie,   \* the registry the main thread holds (Arc<TaskerieContext>)
    executor_taskerie, \* the clone the thread's closure holds, <<>> once dropped
    main_pc,    \* main thread: "select", "drain" (for message in rx), "join",
                \* "exited"
    selected,   \* executor_selected_task, the name handed to the executor
    thread,     \* executor thread: "none", "spawned", "running", "returned"
                \* (the closure has returned and drops what it captured),
                \* "finished"
    stack,      \* run_task activations of the executor thread, innermost last
    proc,       \* lines read so far from the spawned process, or -1
    chan,       \* messages sent and not yet received
    tx_alive,   \* the executor still owns the Sender
    result,     \* what the executor thread's closure returned
    reported,   \* main printed "Error executing task"
    sent,       \* history: every message sent in this run, in send order
    received,   \* history: every message main has printed, in order
    invs,       \* history: one record per run_task activation of this run
    fn_input,   \* the argument a function or the parser is applied to
    fn_output,  \* what it returned, <<>> before it has
    parser      \* the ActionParser at work on input, <<>> when there is none

engine_vars == <<taskerie, executor_taskerie, main_pc, selected, thread, stack, proc, chan, tx_alive,
                 result, reported, sent, received, invs>>
\* The engine takes no part in a function application or a parse, and
\* these take no part in a run.
apart == <<fn_input, fn_output, parser>>
vars == <<engine_vars, apart>>

NoResult == [kind |-> "none"]
OkResult == [kind |-> "ok"]
ErrResult(e) == [kind |-> "err", err |-> e]

Pending == <<"Pending">>

Top == stack[Len(stack)]
TopTask == executor_taskerie[1][Top.task]

Init ==
    /\ taskerie \in Registries
    /\ executor_taskerie = <<>>
    /\ main_pc = "select"
    /\ selected = "top"
    /\ thread = "none"
    /\ stack = <<>>
    /\ proc = -1
    /\ chan = <<>>
    /\ tx_alive = FALSE
    /\ result = NoResult
    /\ reported = FALSE
    /\ sent = <<>>
    /\ received = <<>>
    /\ invs = <<>>
    /\ fn_input = <<>>
    /\ fn_output = <<>>
    /\ parser = <<>>

----------------------------------------------------------------------------
(* History bookkeeping (not program state)                                 *)

\* A new activation record: the task, the calling activation and action
\* (0 for the top-level run) and the context run_task was entered with.
\* executed lists the primary actions it has started; hooks would list the
\* on_success / on_failure actions it has started: no step of run_task
\* reads task.on_success or task.on_failure, so it stays empty.
NewInv(task, parent, pidx, ctx) ==
    [task |-> task, parent |-> parent, pidx |-> pidx, entry |-> ctx,
     bound |-> "pending", executed |-> <<>>, hooks |-> <<>>, ret |-> Pending]

\* Activation id starts primary action idx.
Began(h, id, idx) ==
    [h EXCEPT ![id].executed =
        Append(@, [idx |-> idx, at |-> Len(sent), spawned |-> FALSE,
                   status |-> Pending])]

\* popen() gave a process for the action activation id started last.
Spawned(h, id) ==
    [h EXCEPT ![id].executed[Len(h[id].executed)].spawned = TRUE]

\* The action activation id started last returned status to run_task.
Ended(h, id, status) ==
    [h EXCEPT ![id].executed[Len(h[id].executed)].status = status]

Returned(h, id, status) == [h EXCEPT ![id].ret = status]

----------------------------------------------------------------------------
(* message::ExecutionMessage.  inv and idx are history tags: the           *)
(* activation and the primary action the message was sent for.             *)

MissingRequiredTaskParameter(name, inv) ==
    [type |-> "MissingRequiredTaskParameter", parameter_name |-> name,
     inv |-> inv, idx |-> 0]
WorkingDirectoryNotFound(path, inv, idx) ==
    [type |-> "WorkingDirectoryNotFound", path |-> path, inv |-> inv, idx |-> idx]
AboutToRunCommand(command, dir, inv, idx) ==
    [type |-> "AboutToRunCommand", command |-> command,
     working_directory |-> dir, inv |-> inv, idx |-> idx]
CommandOutput(output, inv, idx) ==
    [type |-> "CommandOutput", output |-> output, inv |-> inv, idx |-> idx]
CommandSucceeded(inv, idx) == [type |-> "CommandSucceeded", inv |-> inv, idx |-> idx]
CommandFailed(inv, idx) == [type |-> "CommandFailed", inv |-> inv, idx |-> idx]

----------------------------------------------------------------------------
(* The executor thread.  Every step is computed as an outcome              *)
(*   [stack, invs, msgs, proc, fin, err]                                   *)
(* fin = "run": the thread goes on; "ok"/"err": its closure returned.      *)

Frame(id, task, ctx) == [id |-> id, task |-> task, ctx |-> ctx, pc |-> "params", idx |-> 1]

Running(stk, h, msgs, p) ==
    [stack |-> stk, invs |-> h, msgs |-> msgs, proc |-> p, fin |-> "run", err |-> <<>>]
Finished(h, msgs) ==
    [stack |-> <<>>, invs |-> h, msgs |-> msgs, proc |-> -1, fin |-> "ok", err |-> <<>>]
\* An Err propagated by `?` through every enclosing run_task.
Bail(h, msgs, e) ==
    [stack |-> <<>>, invs |-> h, msgs |-> msgs, proc |-> -1, fin |-> "err", err |-> e]

\* run_task, after its loop over task.actions has ended (by break or by
\* exhaustion) with last_status the status of the last action run.
run_task_result(last_status) == Exited(0)

RECURSIVE run_task_return(_, _, _, _), run_task_loop(_, _, _, _)

\* Mutant: the callee works on the caller's context, so what it bound is
\* still there when it returns.
Mutant_run_task_return_shared(stk, h, msgs, status) ==
    LET f == stk[Len(stk)]
        h1 == Returned(h, f.id, status)
        rest == SubSeq(stk, 1, Len(stk) - 1)
    IN IF rest = <<>> THEN Finished(h1, msgs)
       ELSE run_task_loop([rest EXCEPT ![Len(rest)].ctx =
                              [n \in DOMAIN f.ctx \cup DOMAIN @ |->
                                  IF n \in DOMAIN f.ctx THEN f.ctx[n] ELSE @[n]]],
                          h1, msgs, status)

\* The innermost activation returns Ok(status).
run_task_return(stk, h, msgs, status) ==
    LET f == stk[Len(stk)]
        h1 == Returned(h, f.id, status)
        rest == SubSeq(stk, 1, Len(stk) - 1)
    IN IF rest = <<>> THEN Finished(h1, msgs)
       ELSE run_task_loop(rest, h1, msgs, status)

\* run_action returned Ok(status) to the loop of the innermost activation.
run_task_loop(stk, h, msgs, status) ==
    LET n == Len(stk)
        f == stk[n]
        h1 == Ended(h, f.id, status)
    IN IF success(status) /\ f.idx < Len(executor_taskerie[1][f.task].actions)
       THEN Running([stk EXCEPT ![n].idx = f.idx + 1, ![n].pc = "loop"], h1, msgs, -1)
       ELSE run_task_return(stk, h1, msgs, run_task_result(status))

\* Mutant: a default is set whether or not the context holds the name.
RECURSIVE Mutant_bind_params_overwrites(_, _)
Mutant_bind_params_overwrites(params, param_context) ==
    IF params = <<>> THEN [ctx |-> param_context, missing |-> <<>>]
    ELSE LET p == Head(params)
         IN IF p.default # <<>>
            THEN Mutant_bind_params_overwrites(
                     Tail(params), set(param_context, p.name, p.default[1]))
            ELSE IF has(param_context, p.name)
            THEN Mutant_bind_params_overwrites(Tail(params), param_context)
            ELSE [ctx |-> param_context, missing |-> <<p.name>>]

\* The parameter loop of run_task: the context after it, and the first
\* parameter that is absent and has no default (<<>> if none).
RECURSIVE bind_params(_, _)
bind_params(params, param_context) ==
    IF params = <<>> THEN [ctx |-> param_context, missing |-> <<>>]
    ELSE LET p == Head(params)
         IN IF has(param_context, p.name)
            THEN bind_params(Tail(params), param_context)
            ELSE IF p.default # <<>>
            THEN bind_params(Tail(params), set(param_context, p.name, p.default[1]))
            ELSE [ctx |-> param_context, missing |-> <<p.name>>]

\* Mutant: a missing parameter is reported but does not end the task.
Mutant_run_task_params_goes_on(stk, h) ==
    LET n == Len(stk)
        f == stk[n]
        task == executor_taskerie[1][f.task]
        b == bind_params(task.params, f.ctx)
        bound == [stk EXCEPT ![n].ctx = b.ctx, ![n].pc = "loop"]
        msgs == IF b.missing # <<>>
                THEN <<MissingRequiredTaskParameter(b.missing[1], f.id)>> ELSE <<>>
        h1 == [h EXCEPT ![f.id].bound = IF b.missing # <<>> THEN "missing" ELSE "ok"]
    IN IF task.actions = <<>>
       THEN run_task_return(bound, h1, msgs, run_task_result(Exited(0)))
       ELSE Running(bound, h1, msgs, -1)

run_task_params(stk, h) ==
    LET n == Len(stk)
        f == stk[n]
        task == executor_taskerie[1][f.task]
        b == bind_params(task.params, f.ctx)
        bound == [stk EXCEPT ![n].ctx = b.ctx, ![n].pc = "loop"]
    IN IF b.missing # <<>>
       THEN run_task_return(bound, [h EXCEPT ![f.id].bound = "missing"],
                            <<MissingRequiredTaskParameter(b.missing[1], f.id)>>,
                            Undetermined)
       ELSE IF task.actions = <<>>
       THEN run_task_return(bound, [h EXCEPT ![f.id].bound = "ok"], <<>>,
                            run_task_result(Exited(0)))
       ELSE Running(bound, [h EXCEPT ![f.id].bound = "ok"], <<>>, -1)

\* The binding loop of run_task_from_action.
RECURSIVE render_bindings(_, _, _)
render_bindings(params, param_context, task_param_context) ==
    IF params = <<>> THEN Ok(task_param_context)
    ELSE LET r == render(Head(params).value, param_context)
         IN IF ~r.ok THEN r
            ELSE render_bindings(Tail(params), param_context,
                                 set(task_param_context, Head(params).name, r.val))

\* Mutant: the callee's context starts as a copy of the caller's.
Mutant_run_task_from_action_inherits(stk, h) ==
    LET n == Len(stk)
        f == stk[n]
        task_call == executor_taskerie[1][f.task].actions[f.idx]
        h1 == Began(h, f.id, f.idx)
        ctx == render_bindings(task_call.params, f.ctx, f.ctx)
        id == Len(h) + 1
    IN IF task_call.name \notin DOMAIN executor_taskerie[1]
       THEN Bail(h1, <<>>, <<"Task is not defined", task_call.name>>)
       ELSE IF ~ctx.ok THEN Bail(h1, <<>>, ctx.err)
       ELSE Running(Append([stk EXCEPT ![n].pc = "call"],
                           Frame(id, task_call.name, ctx.val)),
                    Append(h1, NewInv(task_call.name, f.id, f.idx, ctx.val)),
                    <<>>, -1)

\* Mutant: an undefined task is an Undetermined status, not an Err.
Mutant_run_task_from_action_soft(stk, h) ==
    LET n == Len(stk)
        f == stk[n]
        task_call == executor_taskerie[1][f.task].actions[f.idx]
        h1 == Began(h, f.id, f.idx)
        ctx == render_bindings(task_call.params, f.ctx, ParamContext_default)
        id == Len(h) + 1
    IN IF task_call.name \notin DOMAIN executor_taskerie[1]
       THEN run_task_loop(stk, h1, <<>>, Undetermined)
       ELSE IF ~ctx.ok THEN Bail(h1, <<>>, ctx.err)
       ELSE Running(Append([stk EXCEPT ![n].pc = "call"],
                           Frame(id, task_call.name, ctx.val)),
                    Append(h1, NewInv(task_call.name, f.id, f.idx, ctx.val)),
                    <<>>, -1)

\* Mutant: a task that is already running is not entered again, and the
\* action that called it counts as done.
Mutant_run_task_from_action_skips_running(stk, h) ==
    LET n == Len(stk)
        f == stk[n]
        task_call == executor_taskerie[1][f.task].actions[f.idx]
        h1 == Began(h, f.id, f.idx)
        ctx == render_bindings(task_call.params, f.ctx, ParamContext_default)
        id == Len(h) + 1
    IN IF task_call.name \notin DOMAIN executor_taskerie[1]
       THEN Bail(h1, <<>>, <<"Task is not defined", task_call.name>>)
       ELSE IF ~ctx.ok THEN Bail(h1, <<>>, ctx.err)
       ELSE IF \E j \in 1..n : stk[j].task = task_call.name
       THEN run_task_loop(stk, h1, <<>>, Exited(0))
       ELSE Running(Append([stk EXCEPT ![n].pc = "call"],
                           Frame(id, task_call.name, ctx.val)),
                    Append(h1, NewInv(task_call.name, f.id, f.idx, ctx.val)),
                    <<>>, -1)

run_task_from_action(stk, h) ==
    LET n == Len(stk)
        f == stk[n]
        task_call == executor_taskerie[1][f.task].actions[f.idx]
        h1 == Began(h, f.id, f.idx)
        ctx == render_bindings(task_call.params, f.ctx, ParamContext_default)
        id == Len(h) + 1
    IN IF task_call.name \notin DOMAIN executor_taskerie[1]
       THEN Bail(h1, <<>>, <<"Task is not defined", task_call.name>>)
       ELSE IF ~ctx.ok THEN Bail(h1, <<>>, ctx.err)
       ELSE Running(Append([stk EXCEPT ![n].pc = "call"],
                           Frame(id, task_call.name, ctx.val)),
                    Append(h1, NewInv(task_call.name, f.id, f.idx, ctx.val)),
                    <<>>, -1)

\* Mutant: a command text or working directory that does not render ends
\* the command with Undetermined, as a directory that does not exist does.
Mutant_run_command_spawn_unbound_soft(stk, h, spawned) ==
    LET n == Len(stk)
        f == stk[n]
        task == executor_taskerie[1][f.task]
        command == task.actions[f.idx].command
        h1 == Began(h, f.id, f.idx)
        current_dir == IF task.working_directory = <<>> THEN Ok(<<".", "/">>)
                       ELSE render(task.working_directory[1], f.ctx)
        text == render(command, f.ctx)
    IN IF ~current_dir.ok THEN run_task_loop(stk, h1, <<>>, Undetermined)
       ELSE IF current_dir.val \notin DOMAIN Canonical
       THEN run_task_loop(stk, h1,
                          <<WorkingDirectoryNotFound(current_dir.val, f.id, f.idx)>>,
                          Undetermined)
       ELSE IF ~text.ok THEN run_task_loop(stk, h1, <<>>, Undetermined)
       ELSE LET about == AboutToRunCommand(text.val, Canonical[current_dir.val],
                                           f.id, f.idx)
            IN IF spawned
               THEN Running([stk EXCEPT ![n].pc = "proc"], Spawned(h1, f.id), <<about>>, 0)
               ELSE Bail(h1, <<about>>, <<"popen">>)

\* Mutant: the process is spawned without AboutToRunCommand being sent.
Mutant_run_command_spawn_silent(stk, h, spawned) ==
    LET n == Len(stk)
        f == stk[n]
        task == executor_taskerie[1][f.task]
        command == task.actions[f.idx].command
        h1 == Began(h, f.id, f.idx)
        current_dir == IF task.working_directory = <<>> THEN Ok(<<".", "/">>)
                       ELSE render(task.working_directory[1], f.ctx)
        text == render(command, f.ctx)
    IN IF ~current_dir.ok THEN Bail(h1, <<>>, current_dir.err)
       ELSE IF current_dir.val \notin DOMAIN Canonical
       THEN run_task_loop(stk, h1,
                          <<WorkingDirectoryNotFound(current_dir.val, f.id, f.idx)>>,
                          Undetermined)
       ELSE IF ~text.ok THEN Bail(h1, <<>>, text.err)
       ELSE IF spawned
       THEN Running([stk EXCEPT ![n].pc = "proc"], Spawned(h1, f.id), <<>>, 0)
       ELSE Bail(h1, <<>>, <<"popen">>)

\* run_command up to popen(); spawned says whether popen() succeeded.
\* Mutant: the command text is rendered before the directory is resolved.
Mutant_run_command_spawn_text_first(stk, h, spawned) ==
    LET n == Len(stk)
        f == stk[n]
        task == executor_taskerie[1][f.task]
        command == task.actions[f.idx].command
        h1 == Began(h, f.id, f.idx)
        current_dir == IF task.working_directory = <<>> THEN Ok(<<".", "/">>)
                       ELSE render(task.working_directory[1], f.ctx)
        text == render(command, f.ctx)
    IN IF ~current_dir.ok THEN Bail(h1, <<>>, current_dir.err)
       ELSE IF ~text.ok THEN Bail(h1, <<>>, text.err)
       ELSE IF current_dir.val \notin DOMAIN Canonical
       THEN run_task_loop(stk, h1,
                          <<WorkingDirectoryNotFound(current_dir.val, f.id, f.idx)>>,
                          Undetermined)
       ELSE LET about == AboutToRunCommand(text.val, Canonical[current_dir.val],
                                           f.id, f.idx)
            IN IF spawned
               THEN Running([stk EXCEPT ![n].pc = "proc"], Spawned(h1, f.id), <<about>>, 0)
               ELSE Bail(h1, <<about>>, <<"popen">>)

run_command_spawn(stk, h, spawned) ==
    LET n == Len(stk)
        f == stk[n]
        task == executor_taskerie[1][f.task]
        command == task.actions[f.idx].command
        h1 == Began(h, f.id, f.idx)
        current_dir == IF task.working_directory = <<>> THEN Ok(<<".", "/">>)
                       ELSE render(task.working_directory[1], f.ctx)
        text == render(command, f.ctx)
    IN IF ~current_dir.ok THEN Bail(h1, <<>>, current_dir.err)
       ELSE IF current_dir.val \notin DOMAIN Canonical
       THEN run_task_loop(stk, h1,
                          <<WorkingDirectoryNotFound(current_dir.val, f.id, f.idx)>>,
                          Undetermined)
       ELSE IF ~text.ok THEN Bail(h1, <<>>, text.err)
       ELSE LET about == AboutToRunCommand(text.val, Canonical[current_dir.val],
                                           f.id, f.idx)
            IN IF spawned
               THEN Running([stk EXCEPT ![n].pc = "proc"], Spawned(h1, f.id), <<about>>, 0)
               ELSE Bail(h1, <<about>>, <<"popen">>)

\* Mutant: the completion message does not depend on the exit status.
Mutant_run_command_wait_always_succeeded(stk, h, waited) ==
    LET f == stk[Len(stk)]
    IN IF waited = WaitError THEN Bail(h, <<>>, <<"wait">>)
       ELSE run_task_loop(stk, h, <<CommandSucceeded(f.id, f.idx)>>, waited)

\* Mutant: an output line that cannot be read abandons the command, and the
\* run goes on with the status Undetermined.
Mutant_run_command_line_abandons(stk, h, lines, item) ==
    LET f == stk[Len(stk)]
    IN IF item = "line"
       THEN Running(stk, h, <<CommandOutput(lines + 1, f.id, f.idx)>>, lines + 1)
       ELSE run_task_loop(stk, h, <<>>, Undetermined)

\* One turn of `for line in output_reader.lines()` that yields an item.
run_command_line(stk, h, lines, item) ==
    LET f == stk[Len(stk)]
    IN IF item = "line"
       THEN Running(stk, h, <<CommandOutput(lines + 1, f.id, f.idx)>>, lines + 1)
       ELSE Bail(h, <<>>, <<"read">>)

\* End of the output stream: process.wait(), the completion message and
\* the status handed back to run_task.
run_command_wait(stk, h, waited) ==
    LET f == stk[Len(stk)]
    IN IF waited = WaitError THEN Bail(h, <<>>, <<"wait">>)
       ELSE run_task_loop(stk, h,
                          <<IF success(waited) THEN CommandSucceeded(f.id, f.idx)
                                               ELSE CommandFailed(f.id, f.idx)>>,
                          waited)

\* run_task_by_name, called by the thread's closure.
run_task_by_name(name, param_context) ==
    IF name \in DOMAIN executor_taskerie[1]
    THEN Running(<<Frame(1, name, param_context)>>,
                 <<NewInv(name, 0, 0, param_context)>>, <<>>, -1)
    ELSE Bail(<<>>, <<>>, <<"Task not found">>)

\* The effect of one executor step.  Each message is sent with
\* mpsc::Sender::send on the unbounded channel: it never blocks, and it
\* fails only once the Receiver is dropped, which main does after the drain.
\* When the closure returns, what it captured by move is dropped, the Sender
\* and the registry handle in an order the language leaves open, and the
\* thread ends once both are gone.  Main cannot tell a closure that still
\* holds the Sender from one that runs, so the step that returns drops the
\* Sender, and the handle with it unless the handle is dropped last.
Step(o) ==
    /\ stack' = o.stack
    /\ invs' = o.invs
    /\ proc' = o.proc
    /\ chan' = chan \o o.msgs
    /\ sent' = sent \o o.msgs
    /\ IF o.fin = "run"
       THEN /\ thread' = "running"
            /\ UNCHANGED <<tx_alive, executor_taskerie>>
       ELSE /\ tx_alive' = FALSE
            /\ \E last \in {"Sender", "registry"} :
                  IF last = "registry"
                  THEN thread' = "returned" /\ UNCHANGED executor_taskerie
                  ELSE thread' = "finished" /\ executor_taskerie' = <<>>
    /\ result' = CASE o.fin = "run" -> NoResult
                   [] o.fin = "ok" -> OkResult
                   [] OTHER -> ErrResult(o.err)
    /\ UNCHANGED <<taskerie, main_pc, selected, reported, received, apart>>

ThreadStart ==
    /\ thread = "spawned"
    /\ Step(run_task_by_name(selected, ParamContext_default))

TaskParams ==
    /\ thread = "running"
    /\ Top.pc = "params"
    /\ Step(run_task_params(stack, invs))

ActionTaskCall ==
    /\ thread = "running"
    /\ Top.pc = "loop"
    /\ TopTask.actions[Top.idx].kind = "TaskCall"
    /\ Len(stack) < MaxDepth
    /\ Step(run_task_from_action(stack, invs))

ActionCommand ==
    /\ thread = "running"
    /\ Top.pc = "loop"
    /\ TopTask.actions[Top.idx].kind = "Command"
    /\ \E spawned \in BOOLEAN : Step(run_command_spawn(stack, invs, spawned))

CommandLine ==
    /\ thread = "running"
    /\ Top.pc = "proc"
    /\ proc < MaxLines
    /\ \E item \in {"line", "error"} : Step(run_command_line(stack, invs, proc, item))

CommandWait ==
    /\ thread = "running"
    /\ Top.pc = "proc"
    /\ \E waited \in {Exited(0), Exited(1), WaitError} :
          Step(run_command_wait(stack, invs, waited))

\* The closure drops the registry handle last, and the thread ends.
DropRegistry ==
    /\ thread = "returned"
    /\ executor_taskerie' = <<>>
    /\ thread' = "finished"
    /\ UNCHANGED <<taskerie, main_pc, selected, stack, proc, chan, tx_alive,
                   result, reported, sent, received, invs, apart>>

Executor ==
    \/ ThreadStart
    \/ TaskParams
    \/ ActionTaskCall
    \/ ActionCommand
    \/ CommandLine
    \/ CommandWait
    \/ DropRegistry

----------------------------------------------------------------------------
(* The main thread (main.rs, the run branch of the loop)                   *)

\* mpsc::channel(), the clones and thread::spawn.
StartRun ==
    /\ main_pc = "select"
    /\ selected' \in RunNames
    /\ main_pc' = "drain"
    /\ thread' = "spawned"
    /\ tx_alive' = TRUE
    /\ chan' = <<>>
    /\ sent' = <<>>
    /\ received' = <<>>
    /\ invs' = <<>>
    /\ result' = NoResult
    /\ reported' = FALSE
    /\ executor_taskerie' = <<taskerie>>
    /\ UNCHANGED <<taskerie, stack, proc, apart>>

\* One turn of `for message in rx` that receives a message and prints it.
Receive ==
    /\ main_pc = "drain"
    /\ chan # <<>>
    /\ received' = Append(received, Head(chan))
    /\ chan' = Tail(chan)
    /\ UNCHANGED <<taskerie, executor_taskerie, main_pc, selected, thread, stack,
                   proc, tx_alive, result, reported, sent, invs, apart>>

\* Mutant: the loop ends as soon as the queue is empty (try_recv).
Mutant_DrainEnd_try_recv ==
    /\ main_pc = "drain"
    /\ chan = <<>>
    /\ main_pc' = "join"
    /\ UNCHANGED <<taskerie, executor_taskerie, selected, thread, stack, proc,
                   chan, tx_alive, result, reported, sent, received, invs, apart>>

\* recv() fails, which ends the loop: the queue is empty and the Sender is gone.
DrainEnd ==
    /\ main_pc = "drain"
    /\ chan = <<>>
    /\ ~tx_alive
    /\ main_pc' = "join"
    /\ UNCHANGED <<taskerie, executor_taskerie, selected, thread, stack, proc,
                   chan, tx_alive, result, reported, sent, received, invs, apart>>

\* Mutant: main does not wait for the thread to end.
Mutant_Join_no_wait ==
    /\ main_pc = "join"
    /\ reported' = (result.kind = "err")
    /\ main_pc' = "select"
    /\ UNCHANGED <<taskerie, executor_taskerie, selected, thread, stack, proc,
                   chan, tx_alive, result, sent, received, invs, apart>>

\* executor_thread.join() and the report of its Err.
Join ==
    /\ main_pc = "join"
    /\ thread = "finished"
    /\ reported' = (result.kind = "err")
    /\ main_pc' = "select"
    /\ UNCHANGED <<taskerie, executor_taskerie, selected, thread, stack, proc,
                   chan, tx_alive, result, sent, received, invs, apart>>

\* Arc::strong_count(&taskerie): main's handle and the clone of it a
\* closure still holds.
Arc_strong_count == 1 + (IF executor_taskerie # <<>> THEN 1 ELSE 0)

\* What load() can return at a reload: the registry of a file in which the
\* leaf task is as before or has been rewritten, or an Err.
Reloads ==
    {Ok([taskerie EXCEPT !["leaf"] = l]) : l \in LeafShapes}
        \cup {Err(<<"load">>)}

\* The reload branch.  load() either builds a registry, which replaces the
\* one main holds, or fails, and main returns the error.  The history is
\* that of the runs on the registry main holds, so it starts again.
Reload ==
    /\ main_pc = "select"
    /\ \E loaded \in Reloads :
          IF loaded.ok
          THEN /\ taskerie' = loaded.val
               /\ main_pc' = "select"
          ELSE /\ main_pc' = "exited"
               /\ UNCHANGED taskerie
    /\ sent' = <<>>
    /\ received' = <<>>
    /\ invs' = <<>>
    /\ UNCHANGED <<executor_taskerie, selected, thread, stack, proc, chan,
                   tx_alive, result, reported, apart>>

\* The exit branch: main returns, and with it the history ends.
Exit ==
    /\ main_pc = "select"
    /\ main_pc' = "exited"
    /\ sent' = <<>>
    /\ received' = <<>>
    /\ invs' = <<>>
    /\ UNCHANGED <<taskerie, executor_taskerie, selected, thread, stack, proc,
                   chan, tx_alive, result, reported, apart>>

Next == Executor \/ StartRun \/ Receive \/ DrainEnd \/ Join \/ Reload \/ Exit

Spec == Init /\ [][Next]_vars

----------------------------------------------------------------------------
(* service/action.rs: rendering a list of argument parts                   *)

\* action::ArgumentPart
Literal(text) == [kind |-> "Literal", text |-> text]
Variable(name) == [kind |-> "Variable", name |-> name]

\* Mutant: a variable the context does not hold renders as nothing.
RECURSIVE Mutant_render_argument_parts_in_lenient(_, _, _)
Mutant_render_argument_parts_in_lenient(parts, param_context, buffer) ==
    IF parts = <<>> THEN Ok(buffer)
    ELSE LET part == Head(parts)
         IN IF part.kind = "Literal"
            THEN Mutant_render_argument_parts_in_lenient(
                     Tail(parts), param_context, buffer \o part.text)
            ELSE LET value == get(param_context, part.name)
                 IN Mutant_render_argument_parts_in_lenient(
                        Tail(parts), param_context,
                        buffer \o (IF value = <<>> THEN <<>> ELSE value[1]))

\* Ok(buffer after the loop), or the Err the loop left with.
RECURSIVE render_argument_parts_in(_, _, _)
render_argument_parts_in(parts, param_context, buffer) ==
    IF parts = <<>> THEN Ok(buffer)
    ELSE LET part == Head(parts)
         IN IF part.kind = "Literal"
            THEN render_argument_parts_in(Tail(parts), param_context,
                                          buffer \o part.text)
            ELSE LET value == get(param_context, part.name)
                 IN IF value = <<>>
                    THEN Err(<<"Param is not defined", part.name>>)
                    ELSE render_argument_parts_in(Tail(parts), param_context,
                                                  buffer \o value[1])

render_argument_parts(parts, param_context) ==
    render_argument_parts_in(parts, param_context, <<>>)

----------------------------------------------------------------------------
(* model/task.rs and the listing of service/mod.rs.  Here the registry is  *)
(* the IndexMap itself: [tasks |-> the <<name, Task>> entries in insertion *)
(* order].                                                                 *)

Param_is_required(param) == param.default = <<>>

has_no_default_params(task) ==
    /\ task.params # <<>>
    /\ \E j \in DOMAIN task.params : task.params[j].default = <<>>

\* Task::is_standalone, which get_all_standalone_task_names calls: every
\* declared parameter has a default.
is_standalone(task) ==
    \A j \in DOMAIN task.params : ~Param_is_required(task.params[j])

is_standalone_entry(entry) == is_standalone(entry[2])

\* Mutant: every task is listed.
Mutant_get_all_standalone_task_names_unfiltered(self) ==
    [k \in DOMAIN self.tasks |-> self.tasks[k][1]]

get_all_standalone_task_names(self) ==
    LET kept == SelectSeq(self.tasks, is_standalone_entry)
    IN [k \in DOMAIN kept |-> kept[k][1]]

----------------------------------------------------------------------------
(* taskerie/src/service/action_parser.rs: the ActionParser.  A str is the  *)
(* sequence of its chars; self is the record of the parser's fields, and a *)
(* method taking &mut self is an operator from self to self as it leaves   *)
(* it, inside Ok(_) when the method returns a Result.                      *)

\* model::action::ArgumentComponent::Interpolated; Literal is as above.
Interpolated(name) == [kind |-> "Interpolated", name |-> name]
Argument(components) == [components |-> components]

Start == <<"Start", "">>
ReadName(state) == <<"ReadName", state>>
ReadArg(state) == <<"ReadArg", state>>
Done == <<"Done", "">>

ACTION_NAME_TASK_PREFIX == "_"

\* char::is_whitespace, on the chars the lines are made of.
is_whitespace(c) == c = " "

\* Mutant: a read counts twice.
Mutant_next_counts_twice(self) ==
    [item |-> IF self.remainder = <<>> THEN <<>> ELSE <<Head(self.remainder)>>,
     self |-> [self EXCEPT !.read_count = @ + 2,
                           !.remainder = IF @ = <<>> THEN <<>> ELSE Tail(@)]]

\* Iterator::next: the item is <<>> for None, <<c>> for Some(c).
next(self) ==
    [item |-> IF self.remainder = <<>> THEN <<>> ELSE <<Head(self.remainder)>>,
     self |-> [self EXCEPT !.read_count = @ + 1,
                           !.remainder = IF @ = <<>> THEN <<>> ELSE Tail(@)]]

\* Mutant: the offset is the count before the read that found the end.
Mutant_next_err_offset_before_read(self, err) ==
    LET n == next(self)
    IN IF n.item = <<>>
       THEN Err(<<"Error at", self.read_count, err>>)
       ELSE Ok([c |-> n.item[1], self |-> n.self])

\* Ok([c, self]) or the Err that carries read_count as next() left it.
next_err(self, err) ==
    LET n == next(self)
    IN IF n.item = <<>>
       THEN Err(<<"Error at", n.self.read_count, err>>)
       ELSE Ok([c |-> n.item[1], self |-> n.self])

\* Mutant: an empty buffer never makes a component.
Mutant_handle_end_literal_component_never_empty(self, allow_empty) ==
    IF self.arg_buf # <<>>
    THEN [self EXCEPT !.previous_component = <<Literal(self.arg_buf)>>,
                      !.arg_component_buf = Append(@, Literal(self.arg_buf)),
                      !.arg_buf = <<>>]
    ELSE self

handle_end_literal_component(self, allow_empty) ==
    IF allow_empty \/ self.arg_buf # <<>>
    THEN [self EXCEPT !.previous_component = <<Literal(self.arg_buf)>>,
                      !.arg_component_buf = Append(@, Literal(self.arg_buf)),
                      !.arg_buf = <<>>]
    ELSE self

\* Mutant: the end of an interpolation also ends the argument.
Mutant_handle_end_interpolation_component_ends_arg(self) ==
    IF self.arg_buf # <<>>
    THEN [self EXCEPT !.previous_component = <<>>,
                      !.action.arguments =
                          Append(@, Argument(Append(self.arg_component_buf,
                                                    Interpolated(self.arg_buf)))),
                      !.arg_component_buf = <<>>,
                      !.arg_buf = <<>>]
    ELSE self

handle_end_interpolation_component(self) ==
    IF self.arg_buf # <<>>
    THEN [self EXCEPT !.previous_component = <<Interpolated(self.arg_buf)>>,
                      !.arg_component_buf = Append(@, Interpolated(self.arg_buf)),
                      !.arg_buf = <<>>]
    ELSE self

\* Mutant: the argument goes in front of those already read.
Mutant_handle_end_arg_prepends(self) ==
    IF self.arg_component_buf # <<>>
    THEN [self EXCEPT !.previous_component = <<>>,
                      !.action.arguments =
                          <<Argument(self.arg_component_buf)>> \o @,
                      !.arg_component_buf = <<>>]
    ELSE self

handle_end_arg(self) ==
    IF self.arg_component_buf # <<>>
    THEN [self EXCEPT !.previous_component = <<>>,
                      !.action.arguments =
                          Append(@, Argument(self.arg_component_buf)),
                      !.arg_component_buf = <<>>]
    ELSE self

set_state_reset_arg(self) == [self EXCEPT !.state = ReadArg("Literal")]

\* assert_valid_interpolation_start taking any character after the $.
Mutant_assert_valid_interpolation_start_any(self) ==
    LET n == next_err(self, "$ must be followed by {")
    IN IF ~n.ok THEN n ELSE Ok(n.val.self)

assert_valid_interpolation_start(self) ==
    LET n == next_err(self, "$ must be followed by {")
    IN IF ~n.ok THEN n
       ELSE IF n.val.c # "{" THEN Err(<<"$ must be followed by {">>)
       ELSE Ok(n.val.self)

\* handle_interpolated without the check of the empty name.
Mutant_handle_interpolated_allows_empty(self, from_group) ==
    LET n == next_err(self, "interpolation must be closed")
    IN IF ~n.ok THEN n
       ELSE IF n.val.c = "}"
       THEN LET ended == handle_end_interpolation_component(n.val.self)
            IN IF from_group
               THEN Ok([ended EXCEPT !.state = ReadArg("LiteralGroup")])
               ELSE Ok(set_state_reset_arg(ended))
       ELSE Ok([n.val.self EXCEPT !.arg_buf = Append(@, n.val.c)])

handle_interpolated(self, from_group) ==
    LET n == next_err(self, "interpolation must be closed")
    IN IF ~n.ok THEN n
       ELSE IF n.val.c = "}"
       THEN IF n.val.self.arg_buf = <<>>
            THEN Err(<<"interpolated value cannot be empty">>)
            ELSE LET ended == handle_end_interpolation_component(n.val.self)
                 IN IF from_group
                    THEN Ok([ended EXCEPT !.state = ReadArg("LiteralGroup")])
                    ELSE Ok(set_state_reset_arg(ended))
       ELSE Ok([n.val.self EXCEPT !.arg_buf = Append(@, n.val.c)])

\* handle_read_arg at the end of the input going to Done with what is
\* buffered left in the buffers.
Mutant_handle_read_arg_Literal_no_flush(self) ==
    LET n == next(self)
    IN IF n.item = <<>>
       THEN Ok([n.self EXCEPT !.state = Done])
       ELSE IF n.item[1] = "$"
       THEN LET started == assert_valid_interpolation_start(n.self)
            IN IF ~started.ok THEN started
               ELSE Ok([handle_end_literal_component(started.val, FALSE)
                           EXCEPT !.state = ReadArg("Interpolated")])
       ELSE IF n.item[1] = "\""
       THEN Ok([n.self EXCEPT !.state = ReadArg("LiteralGroup")])
       ELSE IF is_whitespace(n.item[1])
       THEN Ok(handle_end_arg(handle_end_literal_component(n.self, FALSE)))
       ELSE Ok([n.self EXCEPT !.arg_buf = Append(@, n.item[1])])

handle_read_arg_Literal(self) ==
    LET n == next(self)
    IN IF n.item = <<>>
       THEN Ok([handle_end_arg(handle_end_literal_component(n.self, FALSE))
                   EXCEPT !.state = Done])
       ELSE IF n.item[1] = "$"
       THEN LET started == assert_valid_interpolation_start(n.self)
            IN IF ~started.ok THEN started
               ELSE Ok([handle_end_literal_component(started.val, FALSE)
                           EXCEPT !.state = ReadArg("Interpolated")])
       ELSE IF n.item[1] = "\""
       THEN Ok([n.self EXCEPT !.state = ReadArg("LiteralGroup")])
       ELSE IF is_whitespace(n.item[1])
       THEN Ok(handle_end_arg(handle_end_literal_component(n.self, FALSE)))
       ELSE Ok([n.self EXCEPT !.arg_buf = Append(@, n.item[1])])

\* handle_read_arg in a group, the end of the input closing the group.
Mutant_handle_read_arg_LiteralGroup_closes_at_end(self) ==
    LET n == next(self)
    IN IF n.item = <<>> \/ n.item[1] = "\""
       THEN LET ended == handle_end_arg(
                             handle_end_literal_component(n.self, TRUE))
                after == next(ended)
            IN IF after.item = <<>> \/ is_whitespace(after.item[1])
               THEN Ok(set_state_reset_arg(after.self))
               ELSE Err(<<"literal group must be followed by whitespace">>)
       ELSE IF n.item[1] = "$"
       THEN LET started == assert_valid_interpolation_start(n.self)
            IN IF ~started.ok THEN started
               ELSE Ok([handle_end_literal_component(started.val, FALSE)
                           EXCEPT !.state = ReadArg("InterpolatedInGroup")])
       ELSE Ok([n.self EXCEPT !.arg_buf = Append(@, n.item[1])])

handle_read_arg_LiteralGroup(self) ==
    LET n == next_err(self, "argument group must be closed")
    IN IF ~n.ok THEN n
       ELSE IF n.val.c = "\""
       THEN LET ended == handle_end_arg(
                             handle_end_literal_component(n.val.self, TRUE))
                after == next(ended)
            IN IF after.item = <<>> \/ is_whitespace(after.item[1])
               THEN Ok(set_state_reset_arg(after.self))
               ELSE Err(<<"literal group must be followed by whitespace">>)
       ELSE IF n.val.c = "$"
       THEN LET started == assert_valid_interpolation_start(n.val.self)
            IN IF ~started.ok THEN started
               ELSE Ok([handle_end_literal_component(started.val, FALSE)
                           EXCEPT !.state = ReadArg("InterpolatedInGroup")])
       ELSE Ok([n.val.self EXCEPT !.arg_buf = Append(@, n.val.c)])

handle_read_arg(self, read_arg_state) ==
    CASE read_arg_state = "Literal" -> handle_read_arg_Literal(self)
      [] read_arg_state = "LiteralGroup" -> handle_read_arg_LiteralGroup(self)
      [] read_arg_state = "Interpolated" -> handle_interpolated(self, FALSE)
      [] read_arg_state = "InterpolatedInGroup" ->
             handle_interpolated(self, TRUE)

\* handle_read_name taking the prefix wherever it stands in the name.
Mutant_handle_read_name_prefix_anywhere(self, read_name_state) ==
    CASE read_name_state = "Target" ->
             LET n == next_err(self, "empty action")
             IN IF ~n.ok THEN n
                ELSE IF n.val.c = ACTION_NAME_TASK_PREFIX
                THEN Ok([n.val.self EXCEPT !.action.target = "Task",
                                           !.state = ReadName("Name")])
                ELSE Ok([n.val.self EXCEPT !.action.name = Append(@, n.val.c),
                                           !.state = ReadName("Name")])
      [] read_name_state = "Name" ->
             LET n == next(self)
             IN IF n.item = <<>> THEN Ok([n.self EXCEPT !.state = Done])
                ELSE IF is_whitespace(n.item[1])
                THEN Ok([n.self EXCEPT !.state = ReadName("Done")])
                ELSE IF n.item[1] = ACTION_NAME_TASK_PREFIX
                THEN Ok([n.self EXCEPT !.action.target = "Task"])
                ELSE Ok([n.self EXCEPT !.action.name = Append(@, n.item[1])])
      [] read_name_state = "Done" ->
             IF self.action.name = <<>>
             THEN Err(<<"Action must have a name">>)
             ELSE Ok(set_state_reset_arg(self))

handle_read_name(self, read_name_state) ==
    CASE read_name_state = "Target" ->
             LET n == next_err(self, "empty action")
             IN IF ~n.ok THEN n
                ELSE IF n.val.c = ACTION_NAME_TASK_PREFIX
                THEN Ok([n.val.self EXCEPT !.action.target = "Task",
                                           !.state = ReadName("Name")])
                ELSE Ok([n.val.self EXCEPT !.action.name = Append(@, n.val.c),
                                           !.state = ReadName("Name")])
      [] read_name_state = "Name" ->
             LET n == next(self)
             IN IF n.item = <<>> THEN Ok([n.self EXCEPT !.state = Done])
                ELSE IF is_whitespace(n.item[1])
                THEN Ok([n.self EXCEPT !.state = ReadName("Done")])
                ELSE Ok([n.self EXCEPT !.action.name = Append(@, n.item[1])])
      [] read_name_state = "Done" ->
             IF self.action.name = <<>>
             THEN Err(<<"Action must have a name">>)
             ELSE Ok(set_state_reset_arg(self))

ActionParser_new(value) ==
    [remainder |-> value,
     read_count |-> 0,
     action |-> [name |-> <<>>, arguments |-> <<>>, target |-> "External"],
     arg_buf |-> <<>>,
     arg_component_buf |-> <<>>,
     previous_component |-> <<>>,
     state |-> Start]

\* One turn of the loop of parse: Continue(self) when the loop goes on,
\* Break(value) when parse returns value.
Continue(self) == [returned |-> FALSE, self |-> self]
Break(value) == [returned |-> TRUE, value |-> value]

\* A handler's Result<()> under `?`.
Try(handled) == IF handled.ok THEN Continue(handled.val) ELSE Break(handled)

parse_turn(self) ==
    CASE self.state = Start -> Continue([self EXCEPT !.state = ReadName("Target")])
      [] self.state[1] = "ReadName" -> Try(handle_read_name(self, self.state[2]))
      [] self.state[1] = "ReadArg" -> Try(handle_read_arg(self, self.state[2]))
      [] self.state = Done ->
             IF ~(self.arg_buf = <<>> /\ self.arg_component_buf = <<>>)
             THEN Break(Err(<<"Unfinished action">>))
             ELSE IF self.remainder # <<>>
             THEN Break(Err(<<"Parsing finished with remaining character">>))
             ELSE Break(Ok(self.action))

\* The loop of parse, from self to what parse returns.
RECURSIVE parse(_)
parse(self) ==
    CHOOSE value \in
        UNION {IF turn.returned THEN {turn.value} ELSE {parse(turn.self)} :
                  turn \in {parse_turn(self)}} : TRUE

\* str::trim: from the first to the last char that is not whitespace.
trim(s) ==
    LET kept == {k \in DOMAIN s : ~is_whitespace(s[k])}
    IN IF kept = {} THEN <<>>
       ELSE SubSeq(s, CHOOSE k \in kept : \A j \in kept : k <= j,
                      CHOOSE k \in kept : \A j \in kept : j <= k)

\* <Action as FromStr>::from_str
from_str(action_str) ==
    IF trim(action_str) = <<>>
    THEN Err(<<"Empty action is invalid">>)
    ELSE parse(ActionParser_new(trim(action_str)))

----------------------------------------------------------------------------
(* service/interpolated_string.rs (from_str), service/task_parser.rs and   *)
(* lib.rs: from the deserialized configuration to the registry.            *)

\* Least k >= from with s[k] = c and s[k + 1] = c, or 0.
FindPair(s, c, from) ==
    LET at == {k \in from .. Len(s) - 1 : s[k] = c /\ s[k + 1] = c}
    IN IF at = {} THEN 0 ELSE CHOOSE k \in at : \A j \in at : k <= j

\* Regex::captures_iter for \{\{\s*(.*?)\s*\}\}: the matches from left to
\* right, none overlapping; first and last are the ends of the whole match.
RECURSIVE captures_iter(_, _)
captures_iter(val, from) ==
    LET open == FindPair(val, "{", from)
        close == IF open = 0 THEN 0 ELSE FindPair(val, "}", open + 2)
    IN IF close = 0 THEN <<>>
       ELSE <<[name |-> trim(SubSeq(val, open + 2, close - 1)),
               first |-> open, last |-> close + 1]>>
            \o captures_iter(val, close + 2)

\* Mutant: every span keeps its offsets in the text as written.
RECURSIVE Mutant_variable_spans_no_acc(_, _)
Mutant_variable_spans_no_acc(captures, acc) ==
    IF captures = <<>> THEN <<>>
    ELSE LET whole == Head(captures)
         IN <<[name |-> whole.name, start |-> whole.first - 1,
               end |-> whole.last]>>
            \o Mutant_variable_spans_no_acc(Tail(captures), acc)

\* The (InterpolatedVariable, end) pairs of the map over the captures,
\* acc being the length of the matches before.
RECURSIVE variable_spans(_, _)
variable_spans(captures, acc) ==
    IF captures = <<>> THEN <<>>
    ELSE LET whole == Head(captures)
         IN <<[name |-> whole.name, start |-> whole.first - 1 - acc,
               end |-> whole.last - acc]>>
            \o variable_spans(Tail(captures),
                              acc + (whole.last - whole.first + 1))

\* The loop of replace_range(start..end, "").
RECURSIVE replace_ranges(_, _)
replace_ranges(value, spans) ==
    IF spans = <<>> THEN value
    ELSE replace_ranges(SubSeq(value, 1, Head(spans).start)
                            \o SubSeq(value, Head(spans).end + 1, Len(value)),
                        Tail(spans))

InterpolatedString_from_str(val) ==
    LET spans == variable_spans(captures_iter(val, 1), 0)
    IN Ok([value |-> replace_ranges(val, spans),
           parts |-> [k \in DOMAIN spans |->
                         [name |-> spans[k].name, start |-> spans[k].start]]])

\* config::Action
ConfigCommand(text) == [kind |-> "Command", text |-> text]
ConfigTaskCall(name, params) ==
    [kind |-> "TaskCall", name |-> name, params |-> params]

\* collect::<anyhow::Result<_>>(): the first Err, or Ok of every value.
collect(results) ==
    CHOOSE collected \in
        {IF \A k \in DOMAIN rs : rs[k].ok
         THEN Ok([k \in DOMAIN rs |-> rs[k].val])
         ELSE rs[CHOOSE k \in DOMAIN rs :
                    ~rs[k].ok /\ \A j \in 1 .. k - 1 : rs[j].ok] :
            rs \in {results \o <<>>}} : TRUE

\* The conversion of one config::Action: a command text is parsed as an
\* action line, the values of a task call as interpolated strings.
Action_try_from(value) ==
    IF value.kind = "Command"
    THEN from_str(value.text)
    ELSE LET params == collect([k \in DOMAIN value.params |->
                 LET is == InterpolatedString_from_str(value.params[k].value)
                 IN IF is.ok THEN Ok(Bind(value.params[k].name, is.val))
                    ELSE is])
         IN IF params.ok THEN Ok(TaskCall(value.name, params.val)) ELSE params

try_into_all(actions) ==
    collect([k \in DOMAIN actions |-> Action_try_from(actions[k])])

\* Option::map(|dir| dir.parse()).transpose()
parse_working_directory(working_directory) ==
    IF working_directory = <<>> THEN Ok(<<>>)
    ELSE LET is == InterpolatedString_from_str(working_directory[1])
         IN IF is.ok THEN Ok(<<is.val>>) ELSE is

\* Each field is converted in the order written, and the first Err is
\* what try_from returns.
Task_try_from(value) ==
    CHOOSE converted \in
        {IF ~actions.ok THEN actions
         ELSE IF ~on_success.ok THEN on_success
         ELSE IF ~on_failure.ok THEN on_failure
         ELSE IF ~working_directory.ok THEN working_directory
         ELSE Ok(Task(working_directory.val, actions.val, on_success.val,
                      on_failure.val,
                      [k \in DOMAIN value.params |->
                          Param(value.params[k].name, value.params[k].default)])) :
            actions \in {try_into_all(value.actions)},
            on_success \in {try_into_all(value.on_success)},
            on_failure \in {try_into_all(value.on_failure)},
            working_directory \in
                {parse_working_directory(value.working_directory)}} : TRUE

\* The closure load maps over the entries of config.tasks.
load_entry(entry) ==
    CHOOSE converted \in
        {IF t.ok THEN Ok(<<entry[1], t.val>>) ELSE t :
            t \in {Task_try_from(entry[2])}} : TRUE

\* Mutant: a task that does not convert is left out of the registry.
Mutant_load_keeps_converted(config) ==
    IF ~config.ok THEN config
    ELSE LET converted(entry) == load_entry(entry).ok
             kept == SelectSeq(config.val.tasks, converted)
         IN Ok([tasks |-> [k \in DOMAIN kept |-> load_entry(kept[k]).val]])

\* load, from the Result of reading and deserializing the file at path.
load(config) ==
    IF ~config.ok THEN config
    ELSE CHOOSE loaded \in
             {IF tasks.ok THEN Ok([tasks |-> tasks.val]) ELSE tasks :
                 tasks \in {collect([k \in DOMAIN config.val.tasks |->
                                        load_entry(config.val.tasks[k])])}} : TRUE

----------------------------------------------------------------------------
(* Function applications: fn_input is drawn at the start, one step applies *)
(* the function it names and leaves what it returned in fn_output.         *)

\* Most parts of one argument.
MaxParts == 3

\* Sequences over S of length at most n.
SeqUpTo(S, n) == UNION {[1 .. k -> S] : k \in 0 .. n}

\* The param contexts over the names x and y.
Contexts ==
    UNION {[D -> {<<"Z">>, <<"Y", "Y">>, <<>>}] : D \in SUBSET {"x", "y"}}

PartChoices ==
    {Literal(<<"a">>), Literal(<<"b">>), Literal(<<>>), Variable("x"), Variable("y")}

RenderArgumentPartsInputs ==
    {[fn |-> "render_argument_parts", parts |-> ps, param_context |-> c] :
        ps \in SeqUpTo(PartChoices, MaxParts), c \in Contexts}

\* Longest text of an InterpolatedString, placeholders taken out.
MaxValue == 2

\* The part lists FromStr can leave for a value: at most two variables,
\* at offsets inside the value, in the order they stood in the text.
PartLists(value) ==
    {ps \in SeqUpTo({[name |-> n, start |-> k] : n \in {"x", "y"}, k \in 0 .. Len(value)}, 2) :
        \A j \in 2 .. Len(ps) : ps[j - 1].start <= ps[j].start}

RenderInputs ==
    UNION {{[fn |-> "render", self |-> [value |-> v, parts |-> ps],
              param_context |-> c] : ps \in PartLists(v), c \in Contexts} :
           v \in SeqUpTo({"a", "b"}, MaxValue)}

\* Most tasks of one registry.
MaxTasks == 3

TaskNames == {"a", "b", "c", "d"}

\* Parameter declarations: none, with and without default, mixed either
\* way, and a default that is the empty string.
ParamLists ==
    { <<>>,
      <<Param("x", <<<<"1">>>>)>>,
      <<Param("x", <<>>)>>,
      <<Param("x", <<<<"1">>>>), Param("y", <<>>)>>,
      <<Param("x", <<>>), Param("y", <<<<"2">>>>)>>,
      <<Param("x", <<<<"1">>>>), Param("y", <<<<>>>>)>> }

\* The entry lists of an IndexMap: no key twice.
Entries(Keys, Values, n) ==
    {es \in SeqUpTo(Keys \X Values, n) :
        \A j, k \in DOMAIN es : es[j][1] = es[k][1] => j = k}

\* The listings applied to registries of up to n tasks.
ListingInputs(n) ==
    {[fn |-> "get_all_standalone_task_names", self |-> [tasks |-> es]] :
        es \in Entries(TaskNames,
                       {Task(<<>>, <<>>, <<>>, <<>>, ps) : ps \in ParamLists},
                       n)}

\* The tasks of a configuration: every list filled and well formed, none
\* filled, and a text that is no action line (a quote left open, a $ that
\* starts no interpolation) in actions, on_success or on_failure.
ConfigTasks ==
    { Task(<<<<"{", "{", "x", "}", "}", "d">>>>,
           <<ConfigCommand(<<"a">>),
             ConfigTaskCall("b", <<Bind("x", <<"{", "{", "y", "}", "}">>)>>)>>,
           <<ConfigCommand(<<"a", " ", "\"", "b", " ", "a", "\"">>)>>,
           <<ConfigCommand(<<"a">>)>>,
           <<Param("x", <<<<"1">>>>)>>),
      Task(<<>>, <<>>, <<>>, <<>>, <<>>),
      Task(<<>>, <<ConfigCommand(<<"a">>), ConfigCommand(<<"a", " ", "\"", "b">>)>>,
           <<>>, <<>>, <<>>),
      Task(<<>>, <<ConfigCommand(<<"a">>)>>,
           <<ConfigCommand(<<"a", " ", "$", "b">>)>>, <<>>, <<>>),
      Task(<<>>, <<ConfigCommand(<<"a">>)>>, <<>>,
           <<ConfigCommand(<<"a">>), ConfigCommand(<<"a", " ", "\"", "b">>)>>,
           <<>>) }

\* load applied to configurations of up to n tasks, and to a file that
\* cannot be read.
LoadInputs(n) ==
    {[fn |-> "load", config |-> Ok([tasks |-> es])] :
        es \in Entries(TaskNames, ConfigTasks, n)}
    \cup {[fn |-> "load", config |-> Err(<<"read">>)]}

\* Every application, over registries and configurations of up to n tasks.
Applications(n) ==
    RenderArgumentPartsInputs \cup RenderInputs \cup ListingInputs(n)
        \cup LoadInputs(n)

\* No run is going on.
EngineIdle ==
    /\ taskerie = <<>>
    /\ executor_taskerie = <<>>
    /\ main_pc = "select"
    /\ selected = "top"
    /\ thread = "none"
    /\ stack = <<>>
    /\ proc = -1
    /\ chan = <<>>
    /\ tx_alive = FALSE
    /\ result = NoResult
    /\ reported = FALSE
    /\ sent = <<>>
    /\ received = <<>>
    /\ invs = <<>>

CallInit ==
    /\ EngineIdle
    /\ fn_input \in Applications(MaxTasks)
    /\ fn_output = <<>>
    /\ parser = <<>>

\* The function named fn is applied to fn_input and returns value.
Return(fn, value) ==
    /\ fn_input.fn = fn
    /\ fn_output = <<>>
    /\ fn_output' = <<value>>
    /\ UNCHANGED <<engine_vars, fn_input, parser>>

Apply_render_argument_parts ==
    Return("render_argument_parts",
           render_argument_parts(fn_input.parts, fn_input.param_context))

Apply_render ==
    Return("render", render(fn_input.self, fn_input.param_context))

Apply_get_all_standalone_task_names ==
    Return("get_all_standalone_task_names",
           get_all_standalone_task_names(fn_input.self))

Apply_load == Return("load", load(fn_input.config))

CallNext ==
    \/ Apply_render_argument_parts
    \/ Apply_render
    \/ Apply_get_all_standalone_task_names
    \/ Apply_load

CallSpec == CallInit /\ [][CallNext]_vars

----------------------------------------------------------------------------
(* Parsing one action line: fn_input holds the line, parser the            *)
(* ActionParser between two turns of the loop of parse (<<>> before        *)
(* ActionParser::new), fn_output what from_str returned.                   *)

\* The chars of a line.
Chars == {"a", "b", " ", "\"", "$", "{", "}", "_"}

\* Longest line taken char by char.
MaxLine == 3

\* Most arguments of a line put together from a name and argument texts.
MaxArgs == 2

NameTexts == {<<"a">>, <<"_", "b">>, <<"_">>, <<"b", "$">>}

\* Bare tokens, quoted groups, interpolations alone, between literals and
\* in a group, and texts the parser rejects.
ArgTexts ==
    { <<"b">>, <<"a">>,
      <<"\"", "b", " ", "a", "\"">>,
      <<"\"", "\"">>,
      <<"$", "{", "a", "}">>,
      <<"b", "$", "{", "a", "}", "b">>,
      <<"\"", "b", " ", "$", "{", "a", "}", "\"">>,
      <<"\"", "b">>,
      <<"$", "b">>,
      <<"$", "{", "}">>,
      <<"$", "{", "a">>,
      <<"\"", "a", "\"", "b">> }

RECURSIVE Spaced(_)
Spaced(texts) ==
    IF texts = <<>> THEN <<>>
    ELSE <<" ">> \o Head(texts) \o Spaced(Tail(texts))

\* Lines longer than MaxLine that the sets above do not make: a task line
\* with a --name before a value, interpolations around a literal, an
\* interpolation with a space inside, and in a group a $ before a letter,
\* an empty interpolation, and an interpolation left open; a group opened
\* in the middle of a bare token, a group that is one interpolation, and
\* the line of test_unclosed_quotation_marks_are_rejected.
Examples ==
    { <<"_", "b", " ", "-", "-", "a", " ", "$", "{", "a", "}">>,
      <<"a", " ", "$", "{", "a", "}", "b", "$", "{", "b", "}">>,
      <<"a", " ", "$", "{", "a", " ", "b", "}">>,
      <<"_", "b", " ", "\"", "b", "$", "a", "\"">>,
      <<"a", " ", "\"", "$", "{", "}", "\"">>,
      <<"a", " ", "\"", "b", " ", "$", "{", "a">>,
      <<"a", " ", "b", "\"", "a", " ", "b", "\"">>,
      <<"_", "b", " ", "\"", "$", "{", "a", "}", "\"">>,
      <<"_", "m", "y", "_", "t", "a", "s", "k", " ", "\"">> }

Lines ==
    SeqUpTo(Chars, MaxLine)
    \cup {name \o Spaced(texts) :
             name \in NameTexts, texts \in SeqUpTo(ArgTexts, MaxArgs)}
    \cup Examples

ParseInit ==
    /\ EngineIdle
    /\ fn_input \in {[fn |-> "from_str", action_str |-> l] : l \in Lines}
    /\ fn_output = <<>>
    /\ parser = <<>>

\* from_str up to the call of parse.
FromStr ==
    /\ parser = <<>>
    /\ fn_output = <<>>
    /\ IF trim(fn_input.action_str) = <<>>
       THEN fn_output' = <<Err(<<"Empty action is invalid">>)>>
            /\ UNCHANGED parser
       ELSE parser' = <<ActionParser_new(trim(fn_input.action_str))>>
            /\ UNCHANGED fn_output
    /\ UNCHANGED <<engine_vars, fn_input>>

\* One turn of the loop of parse in a state of the given kind; when parse
\* returns, parser stays as the turn found it.
Turn(kind) ==
    /\ parser # <<>>
    /\ fn_output = <<>>
    /\ parser[1].state[1] = kind
    /\ LET turn == parse_turn(parser[1])
       IN IF turn.returned
          THEN fn_output' = <<turn.value>> /\ UNCHANGED parser
          ELSE parser' = <<turn.self>> /\ UNCHANGED fn_output
    /\ UNCHANGED <<engine_vars, fn_input>>

ParseStart == Turn("Start")
ParseReadName == Turn("ReadName")
ParseReadArg == Turn("ReadArg")
ParseDone == Turn("Done")

ParseNext == FromStr \/ ParseStart \/ ParseReadName \/ ParseReadArg \/ ParseDone

ParseSpec == ParseInit /\ [][ParseNext]_vars

\* parse is one loop on one thread: as long as it has not returned, its
\* next turn is taken.
FairParseSpec == ParseSpec /\ WF_vars(ParseNext)

----------------------------------------------------------------------------
(* A run over a registry whose tasks call one another in a circle.  The    *)
(* registry is the one loaded at startup; the main thread starts the run,  *)
(* and the executor thread is followed for as long as it runs.  What the   *)
(* main thread does with the messages does not reach the executor: send     *)
(* on the unbounded channel never blocks.                                  *)

\* A registry without a circle, one whose leaf calls itself, one whose mid
\* and leaf call each other, and one whose leaf calls itself without the
\* parameter it requires.
CycleRegistries ==
    LET top == Task(<<>>, <<TaskCall("mid", <<>>), Command(Lit(<<"t">>))>>,
                    <<>>, <<>>, <<>>)
        mid == Task(<<>>, <<TaskCall("leaf", <<>>)>>, <<>>, <<>>, <<>>)
        binds == Task(<<>>, <<TaskCall("leaf", <<Bind("p", Lit(<<"w">>))>>)>>,
                      <<>>, <<>>, <<>>)
        leaf(actions, params) == Task(<<>>, actions, <<>>, <<>>, params)
        a == Command(Lit(<<"a">>))
        b == Command(Lit(<<"b">>))
    IN {[top |-> top, mid |-> mid, leaf |-> leaf(<<a>>, <<>>)],
        [top |-> top, mid |-> mid,
         leaf |-> leaf(<<TaskCall("leaf", <<>>), b>>, <<>>)],
        [top |-> top, mid |-> mid,
         leaf |-> leaf(<<a, TaskCall("mid", <<>>)>>, <<>>)],
        [top |-> top, mid |-> binds,
         leaf |-> leaf(<<a, TaskCall("leaf", <<>>)>>, <<Param("p", <<>>)>>)]}

CycleInit ==
    /\ taskerie \in CycleRegistries
    /\ executor_taskerie = <<>>
    /\ main_pc = "select"
    /\ selected = "top"
    /\ thread = "none"
    /\ stack = <<>>
    /\ proc = -1
    /\ chan = <<>>
    /\ tx_alive = FALSE
    /\ result = NoResult
    /\ reported = FALSE
    /\ sent = <<>>
    /\ received = <<>>
    /\ invs = <<>>
    /\ fn_input = <<>>
    /\ fn_output = <<>>
    /\ parser = <<>>

CycleNext == Executor \/ StartRun

\* The executor thread is scheduled as long as it has a step to take, and
\* every spawned process ends: its stream of lines is finite and wait()
\* returns.
CycleSpec == CycleInit /\ [][CycleNext]_vars /\ WF_vars(Executor)

----------------------------------------------------------------------------
(* service::action_parser of taskerie-core: the logos lexers ArgumentToken *)
(* and TaskToken and <TargetTask as FromStr>::from_str.  A lexer returns   *)
(* the longest match of its patterns at its position, the pattern of       *)
(* higher priority on a tie, and an error where no pattern matches or the  *)
(* callback of the match returns None.  fn_input holds the text, parser    *)
(* the lexer and the task while the loop over the tokens runs, fn_output   *)
(* what from_str returned.                                                 *)

\* Most words a text has after its first.
MaxWords == 2

\* ArgumentToken::lexer(s).collect::<Result<Vec<_>, _>>() with the From
\* conversion to ArgumentPart: [^{]+ is a Literal, {{ [^{}]+ }} an
\* Interpolated whose name is trimmed.
RECURSIVE argument_tokens(_)
argument_tokens(s) ==
    IF s = <<>> THEN Ok(<<>>)
    ELSE IF s[1] # "{"
    THEN LET stops == {k \in DOMAIN s : s[k] = "{"}
             end == IF stops = {} THEN Len(s)
                    ELSE (CHOOSE k \in stops : \A j \in stops : k <= j) - 1
             rest == argument_tokens(SubSeq(s, end + 1, Len(s)))
         IN IF rest.ok THEN Ok(<<Literal(SubSeq(s, 1, end))>> \o rest.val) ELSE rest
    ELSE LET stops == {k \in 3 .. Len(s) : s[k] \in {"{", "}"}}
             close == IF stops = {} THEN 0
                      ELSE CHOOSE k \in stops : \A j \in stops : k <= j
         IN IF /\ Len(s) >= 2 /\ s[2] = "{"
               /\ close >= 4 /\ close + 1 <= Len(s)
               /\ s[close] = "}" /\ s[close + 1] = "}"
            THEN LET rest == argument_tokens(SubSeq(s, close + 2, Len(s)))
                 IN IF rest.ok
                    THEN Ok(<<Variable(trim(SubSeq(s, 3, close - 1)))>> \o rest.val)
                    ELSE rest
            ELSE Err(<<"lexing">>)

\* Chars of s matched by --[\S]+ .
param_match(s) ==
    IF Len(s) >= 3 /\ s[1] = "-" /\ s[2] = "-" /\ ~is_whitespace(s[3])
    THEN LET stops == {k \in 3 .. Len(s) : is_whitespace(s[k])}
         IN IF stops = {} THEN Len(s)
            ELSE (CHOOSE k \in stops : \A j \in stops : k <= j) - 1
    ELSE 0

\* Chars of s matched by (?:\{\{[^\}\}]+\}\}|[^\s\{\{"]+)+ , n of them
\* matched so far.
RECURSIVE literal_match(_, _)
literal_match(s, n) ==
    IF n + 2 <= Len(s) /\ s[n + 1] = "{" /\ s[n + 2] = "{"
    THEN LET stops == {k \in n + 3 .. Len(s) : s[k] = "}"}
             close == IF stops = {} THEN 0
                      ELSE CHOOSE k \in stops : \A j \in stops : k <= j
         IN IF close >= n + 4 /\ close + 1 <= Len(s) /\ s[close + 1] = "}"
            THEN literal_match(s, close + 1)
            ELSE n
    ELSE IF n + 1 <= Len(s) /\ ~is_whitespace(s[n + 1]) /\ s[n + 1] \notin {"{", "\""}
    THEN literal_match(s, n + 1)
    ELSE n

\* Chars of s matched by "[^"]*" .
quoted_match(s) ==
    LET stops == {k \in 2 .. Len(s) : s[k] = "\""}
    IN IF s # <<>> /\ s[1] = "\"" /\ stops # {}
       THEN CHOOSE k \in stops : \A j \in stops : k <= j
       ELSE 0

\* lex.slice().trim_start_matches("--")
RECURSIVE trim_start_matches_dashes(_)
trim_start_matches_dashes(s) ==
    IF Len(s) >= 2 /\ s[1] = "-" /\ s[2] = "-"
    THEN trim_start_matches_dashes(SubSeq(s, 3, Len(s)))
    ELSE s

\* Lexer<TaskToken>::next on the text s that is left: the token, and the
\* text left after it; an error leaves the text where it is.
TaskToken_next(s) ==
    LET \* #[logos(skip r"[\s\t]+")]
        kept == {k \in DOMAIN s : ~is_whitespace(s[k])}
        t == IF kept = {} THEN <<>>
             ELSE SubSeq(s, CHOOSE k \in kept : \A j \in kept : k <= j, Len(s))
        param == param_match(t)
        literal == literal_match(t, 0)
        quoted == quoted_match(t)
        after(n) == SubSeq(t, n + 1, Len(t))
        error == [kind |-> "Err", rest |-> t]
    IN IF t = <<>> THEN [kind |-> "None", rest |-> <<>>]
       ELSE IF quoted > 0
       THEN \* extract_quoted
            LET parts == argument_tokens(SubSeq(t, 2, quoted - 1))
            IN IF parts.ok
               THEN [kind |-> "Quoted", val |-> parts.val, rest |-> after(quoted)]
               ELSE error
       ELSE IF param > 0 /\ param >= literal
       THEN [kind |-> "Param", val |-> trim_start_matches_dashes(SubSeq(t, 1, param)),
             rest |-> after(param)]
       ELSE IF literal > 0
       THEN \* extract_literal
            LET parts == argument_tokens(SubSeq(t, 1, literal))
            IN IF parts.ok
               THEN [kind |-> "Literal", val |-> parts.val, rest |-> after(literal)]
               ELSE error
       ELSE error

\* from_str up to its loop: Ok([lexer, task]) or the Err it returns.
TargetTask_from_str_name(s) ==
    LET token == TaskToken_next(trim(s))
    IN IF trim(s) = <<>> THEN Err(<<"Expected task name after", ":">>)
       ELSE IF token.kind # "Literal" THEN Err(<<"Task name should be a literal">>)
       ELSE IF Len(token.val) # 1 THEN Err(<<"Task name should be a single literal">>)
       ELSE IF token.val[1].kind # "Literal"
       THEN Err(<<"Using a variable in a task name is not supported">>)
       ELSE Ok([lexer |-> token.rest,
                task |-> [name |-> token.val[1].text, params |-> <<>>]])

\* One turn of `while let Some(Ok(token)) = lexer.next()`: the loop goes on
\* with [lexer, task], or from_str returns.
TargetTask_from_str_turn(self) ==
    LET token == TaskToken_next(self.lexer)
        value == TaskToken_next(token.rest)
        \* IndexMap::insert: a key the map holds keeps its place and takes
        \* the new value.
        IndexMap_insert(map, key, val) ==
            IF \E k \in DOMAIN map : map[k].key = key
            THEN [k \in DOMAIN map |->
                    IF map[k].key = key THEN [key |-> key, value |-> val] ELSE map[k]]
            ELSE Append(map, [key |-> key, value |-> val])
    IN IF token.kind \in {"None", "Err"}
       THEN [returned |-> TRUE, value |-> Ok(self.task)]
       ELSE IF token.kind # "Param"
       THEN [returned |-> TRUE, value |-> Err(<<"Expected param name, got", token.kind>>)]
       ELSE IF value.kind \in {"Literal", "Quoted"}
       THEN [returned |-> FALSE,
             self |-> [lexer |-> value.rest,
                       task |-> [self.task EXCEPT
                                   !.params = IndexMap_insert(@, token.val, value.val)]]]
       ELSE IF value.kind = "Err"
       THEN [returned |-> TRUE, value |-> Err(<<"Could not find value after", token.val>>)]
       ELSE IF value.kind = "None"
       THEN [returned |-> TRUE, value |-> Err(<<"Expected value for parameter", token.val>>)]
       ELSE [returned |-> TRUE,
             value |-> Err(<<"Expected param value after param name", token.val>>)]

\* The words a text is put together from: a name, parameter names, bare and
\* quoted values, interpolations, and words that cannot be read: a quote
\* that is not closed, a lone brace, an interpolation with a brace inside.
TaskWords ==
    { <<"t">>, <<"-", "-", "p">>, <<"-", "-", "q">>, <<"v">>,
      <<"\"", "v", " ", "w", "\"">>, <<"\"", "v">>,
      <<"{", "{", " ", "a", " ", "}", "}">>, <<"v", "{", "{", "a", "}", "}">>,
      <<"{", "v">>, <<"\"", "{", "{", "a", "{", "}", "}", "\"">> }

RECURSIVE JoinedWords(_)
JoinedWords(words) ==
    IF words = <<>> THEN <<>>
    ELSE IF Len(words) = 1 THEN words[1]
    ELSE words[1] \o <<" ">> \o JoinedWords(Tail(words))

TaskTexts == {JoinedWords(words) : words \in SeqUpTo(TaskWords, MaxWords + 1)}

TaskInit ==
    /\ EngineIdle
    /\ fn_input \in {[fn |-> "TargetTask_from_str", s |-> text] : text \in TaskTexts}
    /\ fn_output = <<>>
    /\ parser = <<>>

\* from_str up to its loop.
TargetTaskName ==
    /\ parser = <<>>
    /\ fn_output = <<>>
    /\ LET start == TargetTask_from_str_name(fn_input.s)
       IN IF start.ok
          THEN parser' = <<start.val>> /\ UNCHANGED fn_output
          ELSE fn_output' = <<start>> /\ UNCHANGED parser
    /\ UNCHANGED <<engine_vars, fn_input>>

\* One turn of the loop; when from_str returns, parser stays as the turn
\* found it.
TargetTaskTurn ==
    /\ parser # <<>>
    /\ fn_output = <<>>
    /\ LET turn == TargetTask_from_str_turn(parser[1])
       IN IF turn.returned
          THEN fn_output' = <<turn.value>> /\ UNCHANGED parser
          ELSE parser' = <<turn.self>> /\ UNCHANGED fn_output
    /\ UNCHANGED <<engine_vars, fn_input>>

TaskNext == TargetTaskName \/ TargetTaskTurn

TaskSpec == TaskInit /\ [][TaskNext]_vars

----------------------------------------------------------------------------
(* An interpolated string from the configuration to its rendering:         *)
(* fn_input holds the text and the context of the run, fn_output what      *)
(* from_str returned and then, after it, what render returned.             *)

\* What a text is put together from.
Pieces ==
    { <<"x">>, <<" ">>, <<"{">>, <<"}">>,
      <<"{", "{", "a", "}", "}">>,
      <<"{", "{", " ", "b", " ", "}", "}">>,
      <<"{", "{", "}", "}">> }

\* Most pieces of one text.
MaxPieces == 3

RECURSIVE Joined(_)
Joined(pieces) ==
    IF pieces = <<>> THEN <<>> ELSE Head(pieces) \o Joined(Tail(pieces))

Texts == {Joined(pieces) : pieces \in SeqUpTo(Pieces, MaxPieces)}

\* Param contexts over the names a, b and the empty name: one binding all
\* three, one whose values look like variables, one binding a alone.
TextContexts ==
    { (<<"a">> :> <<"u", "v">>) @@ (<<"b">> :> <<>>) @@ (<<>> :> <<"w">>),
      (<<"a">> :> <<"{", "{", "b", "}", "}">>) @@ (<<"b">> :> <<"}", "}">>)
          @@ (<<>> :> <<"{">>),
      (<<"a">> :> <<"u">>) }

StringInit ==
    /\ EngineIdle
    /\ fn_input \in {[fn |-> "InterpolatedString_from_str", val |-> t,
                       param_context |-> c] : t \in Texts, c \in TextContexts}
    /\ fn_output = <<>>
    /\ parser = <<>>

\* The text is parsed when the configuration is loaded.
StringFromStr ==
    /\ fn_input.fn = "InterpolatedString_from_str"
    /\ fn_output = <<>>
    /\ fn_output' = <<InterpolatedString_from_str(fn_input.val)>>
    /\ UNCHANGED <<engine_vars, fn_input, parser>>

\* What was parsed is rendered when the run comes to it.
StringRender ==
    /\ fn_input.fn = "InterpolatedString_from_str"
    /\ Len(fn_output) = 1
    /\ fn_output[1].ok
    /\ fn_output' =
           Append(fn_output, render(fn_output[1].val, fn_input.param_context))
    /\ UNCHANGED <<engine_vars, fn_input, parser>>

StringNext == StringFromStr \/ StringRender

StringSpec == StringInit /\ [][StringNext]_vars

----------------------------------------------------------------------------
(* Reading the history                                                     *)

Last(seq) == seq[Len(seq)]
ActionOf(i, k) == taskerie[invs[i].task].actions[invs[i].executed[k].idx]
\* The activation started by the k-th action activation i has run.
Callee(i, k) ==
    CHOOSE c \in DOMAIN invs :
        invs[c].parent = i /\ invs[c].pidx = invs[i].executed[k].idx
Positions(type, inv, idx) ==
    {p \in DOMAIN sent : sent[p].type = type /\ sent[p].inv = inv /\ sent[p].idx = idx}
OfActivation(type, inv) ==
    {p \in DOMAIN sent : sent[p].type = type /\ sent[p].inv = inv}

\* C1: the outcome run_task returns is the outcome of the last primary
\* action it ran, and Succeeded (exit 0) when it ran none.
C1_OutcomeOfLastAction ==
    \A i \in DOMAIN invs :
        (invs[i].bound = "ok" /\ invs[i].ret # Pending) =>
            invs[i].ret = IF invs[i].executed = <<>> THEN Exited(0)
                          ELSE Last(invs[i].executed).status

\* The last primary action activation c ran is a command that exited non-zero.
EndedWithFailedCommand(c) ==
    /\ invs[c].executed # <<>>
    /\ ActionOf(c, Len(invs[c].executed)).kind = "Command"
    /\ Last(invs[c].executed).status = Exited(1)

\* C2: primary actions run in declared order, and none runs after an
\* action that did not succeed, be it a Command that failed or a TaskCall
\* whose callee ended with a failed command.
C2_StopAtFirstFailure ==
    \A i \in DOMAIN invs :
        LET ex == invs[i].executed
        IN /\ \A k \in DOMAIN ex : ex[k].idx = k
           /\ \A k \in 1 .. (Len(ex) - 1) :
                /\ success(ex[k].status)
                /\ ActionOf(i, k).kind = "TaskCall" =>
                      ~EndedWithFailedCommand(Callee(i, k))

\* C3: once the primary actions of a task have finished, exactly one hook
\* list has run: all of on_failure if a primary action failed, all of
\* on_success if every primary action succeeded.
C3_HooksRun ==
    \A i \in DOMAIN invs :
        (invs[i].bound = "ok" /\ invs[i].ret # Pending) =>
            LET failed == \E k \in DOMAIN invs[i].executed :
                              ~success(invs[i].executed[k].status)
                task == taskerie[invs[i].task]
            IN invs[i].hooks = IF failed THEN task.on_failure ELSE task.on_success

\* The parameters without default that the entry context of i lacks.
LacksRequired(i) ==
    {k \in DOMAIN taskerie[invs[i].task].params :
        LET p == taskerie[invs[i].task].params[k]
        IN p.default = <<>> /\ p.name \notin DOMAIN invs[i].entry}

\* C4: a task entered with a context that lacks one of its parameters
\* without default returns Undetermined, sends exactly one
\* MissingRequiredTaskParameter, however many are missing, starts no action
\* and sends no AboutToRunCommand.
C4_MissingParameter ==
    \A i \in DOMAIN invs :
        (LacksRequired(i) # {} /\ invs[i].bound # "pending") =>
            /\ invs[i].bound = "missing"
            /\ invs[i].ret = Undetermined
            /\ invs[i].executed = <<>>
            /\ Cardinality(OfActivation("MissingRequiredTaskParameter", i)) = 1
            /\ OfActivation("AboutToRunCommand", i) = {}
            /\ \A c \in DOMAIN invs : invs[c].parent # i

C4_Witness ==
    \E i \in DOMAIN invs :
        /\ Cardinality(LacksRequired(i)) = 2
        /\ invs[i].parent # 0
        /\ invs[i].ret = Undetermined
        /\ \E p \in DOMAIN sent : sent[p].type = "AboutToRunCommand"

\* C5: when the working directory of a task does not resolve to a
\* directory, WorkingDirectoryNotFound is sent, no AboutToRunCommand is
\* sent for that task, and run_task returns Undetermined for it.
C5_WorkingDirectoryNotFound ==
    \A i \in DOMAIN invs :
        OfActivation("WorkingDirectoryNotFound", i) # {} =>
            /\ OfActivation("AboutToRunCommand", i) = {}
            /\ invs[i].ret \in {Pending, Undetermined}

\* Where the completion message of a command stands in the send history.
Completions(inv, idx) ==
    Positions("CommandSucceeded", inv, idx) \cup Positions("CommandFailed", inv, idx)

\* C6: within one activation, every message of an earlier command comes
\* before the AboutToRunCommand of a later one, and the earlier command's
\* CommandSucceeded / CommandFailed lies between its output and that
\* AboutToRunCommand; every CommandOutput comes after the AboutToRunCommand
\* of its own command and before its completion message.
C6_CommandEventOrder ==
    \A q \in DOMAIN sent :
        LET e == sent[q]
        IN /\ e.type = "CommandOutput" =>
                /\ \E p \in Positions("AboutToRunCommand", e.inv, e.idx) : p < q
                /\ \A r \in Completions(e.inv, e.idx) : q < r
           /\ e.type = "AboutToRunCommand" =>
                \A p \in DOMAIN sent :
                    (sent[p].inv = e.inv /\ sent[p].idx < e.idx) =>
                        /\ p < q
                        /\ sent[p].type \in {"AboutToRunCommand", "CommandOutput"} =>
                              \E r \in Completions(e.inv, sent[p].idx) : p < r /\ r < q

C6_Witness ==
    \E i \in DOMAIN invs :
        /\ Positions("CommandOutput", i, 1) # {}
        /\ Positions("CommandSucceeded", i, 1) # {}
        /\ Positions("AboutToRunCommand", i, 2) # {}
        /\ Positions("CommandOutput", i, 2) # {}

\* The `for message in rx` loop of the current run has ended.
DrainOver == main_pc # "drain" /\ thread # "none"

\* C7: the main thread receives every message exactly once and in send
\* order; its drain ends exactly when the queue is empty and the executor
\* has dropped the Sender; the executor always has a step to take while it
\* holds the Sender, and main always has one while draining a channel whose
\* Sender is gone; a hard error is reported only after the drain has ended.
C7_ChannelProtocol ==
    /\ received \o chan = sent
    /\ DrainOver => (~tx_alive /\ thread \in {"returned", "finished"}
                     /\ chan = <<>> /\ received = sent)
    /\ main_pc = "drain" =>
          /\ ENABLED DrainEnd <=> (~tx_alive /\ chan = <<>>)
          /\ tx_alive => ENABLED Executor
          /\ ~tx_alive => ENABLED (Receive \/ DrainEnd)
    /\ reported => (DrainOver /\ result.kind = "err")
    /\ (main_pc = "drain" /\ ~tx_alive) => result.kind # "none"

C7_Witness ==
    /\ reported
    /\ Len(received) >= 3
    /\ \E p \in DOMAIN received : received[p].type = "CommandOutput"

BindingNames(call) == {call.params[j].name : j \in DOMAIN call.params}

\* C8: at every nesting depth the callee is entered with exactly the
\* bindings of the call, each rendered against the caller's context; a name
\* the caller has and the call does not pass is absent from it.
C8_CalleeContext ==
    \A k \in 2 .. Len(stack) :
        LET caller == stack[k - 1]
            call == taskerie[caller.task].actions[caller.idx]
            entry == invs[stack[k].id].entry
        IN /\ call.kind = "TaskCall"
           /\ call.name = stack[k].task
           /\ DOMAIN entry = BindingNames(call)
           /\ \A j \in DOMAIN call.params :
                 entry[call.params[j].name] = render(call.params[j].value, caller.ctx).val
           /\ \A n \in DOMAIN caller.ctx :
                 n \notin BindingNames(call) => n \notin DOMAIN entry
           /\ stack[k].pc = "params" => stack[k].ctx = entry

C8_Witness ==
    /\ Len(stack) = 3
    /\ stack[3].pc = "params"
    /\ \E n \in DOMAIN stack[2].ctx : n \notin DOMAIN stack[3].ctx
    /\ \E n \in DOMAIN stack[1].ctx : n \notin DOMAIN invs[stack[2].id].entry
    /\ \E n \in DOMAIN stack[3].ctx : stack[3].ctx[n] = stack[2].ctx["x"] \o <<"2">>

\* C9: a nested call never changes the caller's context: from the moment
\* an activation has bound its parameters, no step changes its context,
\* neither while a callee runs nor when the callee returns.
C9_CallerContextUnchanged ==
    [][\A k \in DOMAIN stack :
          (stack[k].pc # "params" /\ k <= Len(stack')) =>
              stack'[k].ctx = stack[k].ctx]_vars

\* A callee that bound a default for a name the caller holds with another
\* value has returned, and the caller goes on.
C9_Witness ==
    \E k \in DOMAIN stack, c \in DOMAIN invs :
        /\ invs[c].parent = stack[k].id
        /\ invs[c].ret # Pending
        /\ invs[c].bound = "ok"
        /\ stack[k].pc = "proc"
        /\ \E j \in DOMAIN taskerie[invs[c].task].params :
              LET p == taskerie[invs[c].task].params[j]
              IN /\ p.default # <<>>
                 /\ p.name \notin DOMAIN invs[c].entry
                 /\ p.name \in DOMAIN stack[k].ctx
                 /\ stack[k].ctx[p.name] # p.default[1]

\* Activation i and every activation it runs inside.
RECURSIVE Enclosing(_)
Enclosing(i) == IF invs[i].parent = 0 THEN {i} ELSE {i} \cup Enclosing(invs[i].parent)

\* The started actions that call a task the registry does not hold.
UnknownCalls ==
    {u \in UNION {{<<i, k>> : k \in DOMAIN invs[i].executed} : i \in DOMAIN invs} :
        /\ ActionOf(u[1], u[2]).kind = "TaskCall"
        /\ ActionOf(u[1], u[2]).name \notin DOMAIN taskerie}

\* C10: a call of a task the registry does not hold, at top level or at any
\* depth, ends the run with a hard error: nothing is sent from the moment
\* the call is made, the call never yields a status, and no enclosing
\* activation returns or starts another action.
C10_UnknownTaskAborts ==
    /\ (thread \in {"running", "returned", "finished"}
        /\ selected \notin DOMAIN taskerie) =>
          (result.kind = "err" /\ sent = <<>> /\ invs = <<>> /\ stack = <<>>)
    /\ \A u \in UnknownCalls :
          LET i == u[1]
              e == invs[i].executed[u[2]]
          IN /\ result = ErrResult(<<"Task is not defined", ActionOf(i, u[2]).name>>)
             /\ stack = <<>> /\ thread \in {"returned", "finished"}
             /\ Len(sent) = e.at
             /\ \A c \in DOMAIN invs : ~(invs[c].parent = i /\ invs[c].pidx = e.idx)
             /\ \A j \in Enclosing(i) :
                   /\ invs[j].ret = Pending
                   /\ Last(invs[j].executed).status = Pending

\* The unknown task is called two levels down, after a command has run,
\* and every enclosing task has actions left.
C10_Witness ==
    \E u \in UnknownCalls :
        /\ invs[u[1]].parent # 0
        /\ sent # <<>>
        /\ reported
        /\ \A j \in Enclosing(u[1]) :
              Last(invs[j].executed).idx < Len(taskerie[invs[j].task].actions)

\* The context activation i runs its actions with: what it was entered
\* with and the defaults of the parameters that lacked.
BoundContext(i) == bind_params(taskerie[invs[i].task].params, invs[i].entry).ctx

\* The started actions <<i, k>> of the run.
Started == UNION {{<<i, k>> : k \in DOMAIN invs[i].executed} : i \in DOMAIN invs}

\* Which render of started action u met a variable its context does not
\* bind: "working_directory", "command", "binding", or "none".  run_command
\* renders the directory first and the command text only when the
\* directory exists; run_task_from_action renders the bindings of a call
\* only when the called task is defined.
UnboundRender(u) ==
    LET task == taskerie[invs[u[1]].task]
        action == ActionOf(u[1], u[2])
        ctx == BoundContext(u[1])
        dir == IF task.working_directory = <<>> THEN Ok(<<".", "/">>)
               ELSE render(task.working_directory[1], ctx)
    IN IF action.kind = "Command"
       THEN IF ~dir.ok THEN "working_directory"
            ELSE IF dir.val \in DOMAIN Canonical /\ ~render(action.command, ctx).ok
            THEN "command" ELSE "none"
       ELSE IF /\ action.name \in DOMAIN taskerie
               /\ \E j \in DOMAIN action.params : ~render(action.params[j].value, ctx).ok
            THEN "binding" ELSE "none"

\* C11: an action whose command text, working directory or call binding
\* names a variable the context does not bind ends the whole run with a
\* hard error, at any depth: the thread's closure returns the render error,
\* nothing is sent for the action, the action yields no status, no callee
\* is entered, and no enclosing activation returns an outcome, runs a hook
\* or starts another action.
C11_UnboundVariableAborts ==
    \A u \in Started :
        UnboundRender(u) # "none" =>
            LET i == u[1]
                e == invs[i].executed[u[2]]
            IN /\ result.kind = "err"
               /\ result.err[1] = "Could not find value for param"
               /\ stack = <<>> /\ thread \in {"returned", "finished"}
               /\ Len(sent) = e.at
               /\ \A c \in DOMAIN invs : ~(invs[c].parent = i /\ invs[c].pidx = e.idx)
               /\ \A j \in Enclosing(i) :
                     /\ invs[j].ret = Pending
                     /\ invs[j].hooks = <<>>
                     /\ Last(invs[j].executed).status = Pending

\* A command two calls down names an unbound variable, its directory
\* resolved; both enclosing tasks have actions left, and main has printed
\* the error.
C11_Witness ==
    \E u \in Started :
        /\ UnboundRender(u) = "command"
        /\ Cardinality(Enclosing(u[1])) = 3
        /\ \A j \in Enclosing(u[1]) \ {u[1]} :
              Last(invs[j].executed).idx < Len(taskerie[invs[j].task].actions)
        /\ reported

\* The process of started action u has not ended yet: the executor is in
\* the output loop of its run_command.
InOutputLoop(u) ==
    /\ stack # <<>>
    /\ Top.pc = "proc"
    /\ Top.id = u[1]
    /\ Top.idx = invs[u[1]].executed[u[2]].idx

SpawnedActions == {u \in Started : invs[u[1]].executed[u[2]].spawned}

\* C12 as stated: a process that exits non-zero has CommandFailed sent and
\* its status returned as a value, one that exits zero has CommandSucceeded
\* sent, and every spawned process that is over has had exactly one of the
\* two sent.
C12_OneCompletionPerProcess ==
    \A u \in SpawnedActions :
        LET i == u[1]
            e == invs[i].executed[u[2]]
        IN /\ e.status = Exited(1) =>
                 /\ Positions("CommandFailed", i, e.idx) # {}
                 /\ Positions("CommandSucceeded", i, e.idx) = {}
           /\ e.status = Exited(0) => Positions("CommandSucceeded", i, e.idx) # {}
           /\ ~InOutputLoop(u) => Cardinality(Completions(i, e.idx)) = 1

\* C12, amended: the completion message is CommandFailed exactly for a
\* non-zero exit and CommandSucceeded exactly for a zero exit, the exit
\* status is handed to run_task as a value (run_task takes it and returns
\* without a hard error), and no process has two completion messages; a
\* process has none when reading its output or waiting for it failed, which
\* ends the run with that error, and a command that spawned no process has
\* none either.
C12_CompletionMatchesExit ==
    \A u \in Started :
        LET i == u[1]
            e == invs[i].executed[u[2]]
            failed == Positions("CommandFailed", i, e.idx)
            succeeded == Positions("CommandSucceeded", i, e.idx)
        IN /\ ~e.spawned => Completions(i, e.idx) = {}
           /\ e.spawned =>
                 /\ Cardinality(Completions(i, e.idx)) <= 1
                 /\ failed # {} <=> e.status = Exited(1)
                 /\ succeeded # {} <=> e.status = Exited(0)
                 /\ e.status = Exited(1) => invs[i].ret # Pending
                 /\ InOutputLoop(u) => e.status = Pending
                 /\ (~InOutputLoop(u) /\ e.status = Pending) =>
                       (result \in {ErrResult(<<"read">>), ErrResult(<<"wait">>)}
                        /\ Len(sent) <= e.at + 1 + MaxLines)

\* One process of the run exited with zero and a later one with non-zero,
\* each after an output line, and the run ended without a hard error.
C12_Witness ==
    \E u, v \in SpawnedActions :
        /\ invs[u[1]].executed[u[2]].status = Exited(0)
        /\ invs[v[1]].executed[v[2]].status = Exited(1)
        /\ Positions("CommandOutput", v[1], invs[v[1]].executed[v[2]].idx) # {}
        /\ result = OkResult

\* What part k of parts contributes to the rendered text.
Piece(parts, param_context, k) ==
    IF parts[k].kind = "Literal" THEN parts[k].text ELSE param_context[parts[k].name]

\* The length of what the first k parts contribute.
RECURSIVE Offset(_, _, _)
Offset(parts, param_context, k) ==
    IF k = 0 THEN 0
    ELSE Offset(parts, param_context, k - 1) + Len(Piece(parts, param_context, k))

\* The variables of parts that param_context does not hold.
Absent(parts, param_context) ==
    {k \in DOMAIN parts :
        parts[k].kind = "Variable" /\ parts[k].name \notin DOMAIN param_context}

\* C13: render_argument_parts returns the parts' texts one after the other
\* in list order, a Literal contributing its text and a Variable the value
\* the context holds for it; when the context lacks a Variable's name it
\* returns an error naming the first such variable, and no text.
C13_RenderConcatenates ==
    (fn_input.fn = "render_argument_parts" /\ fn_output # <<>>) =>
        LET parts == fn_input.parts
            ctx == fn_input.param_context
            out == fn_output[1]
        IN IF Absent(parts, ctx) = {}
           THEN /\ out.ok
                /\ Len(out.val) = Offset(parts, ctx, Len(parts))
                /\ \A k \in DOMAIN parts :
                      SubSeq(out.val, Offset(parts, ctx, k - 1) + 1,
                             Offset(parts, ctx, k)) = Piece(parts, ctx, k)
           ELSE /\ ~out.ok
                /\ \E k \in Absent(parts, ctx) :
                      /\ out.err = <<"Param is not defined", parts[k].name>>
                      /\ \A j \in Absent(parts, ctx) : k <= j

\* [Literal a, Variable x, Literal b] rendered with x = Z gave aZb.
C13_Witness ==
    /\ fn_input.fn = "render_argument_parts"
    /\ fn_input.parts = <<Literal(<<"a">>), Variable("x"), Literal(<<"b">>)>>
    /\ fn_input.param_context = [n \in {"x"} |-> <<"Z">>]
    /\ fn_output = <<Ok(<<"a", "Z", "b">>)>>

\* C14: InterpolatedString::render of a value that has no variable part
\* returns Ok with the value's text as it is, whatever the context holds,
\* the empty context included.
C14_RenderWithoutVariables ==
    (fn_input.fn = "render" /\ fn_input.self.parts = <<>> /\ fn_output # <<>>) =>
        fn_output = <<Ok(fn_input.self.value)>>

\* A two-character value without parts was rendered against the empty
\* context.
C14_Witness ==
    /\ fn_input.fn = "render"
    /\ fn_input.self = Lit(<<"a", "b">>)
    /\ fn_input.param_context = ParamContext_default
    /\ fn_output = <<Ok(<<"a", "b">>)>>

\* The parameters the task of frame f declares.
Declared(f) == taskerie[f.task].params

\* C15: once an activation has bound its parameters, its context holds
\* every name it was entered with, with the value it was entered with, and
\* every declared parameter; a declared parameter it was not entered with
\* holds its default, and nothing else is in the context.
C15_DefaultsOnlyForAbsent ==
    \A k \in DOMAIN stack :
        stack[k].pc # "params" =>
            LET f == stack[k]
                entry == invs[f.id].entry
                names == {Declared(f)[j].name : j \in DOMAIN Declared(f)}
            IN /\ DOMAIN f.ctx = DOMAIN entry \cup names
               /\ \A n \in DOMAIN entry : f.ctx[n] = entry[n]
               /\ \A j \in DOMAIN Declared(f) :
                     Declared(f)[j].name \notin DOMAIN entry =>
                        /\ Declared(f)[j].default # <<>>
                        /\ f.ctx[Declared(f)[j].name] = Declared(f)[j].default[1]

\* One activation keeps the value its caller passed for a parameter whose
\* default is another value, and a callee of it got a default for a
\* parameter its caller did not pass.
C15_Witness ==
    \E k, m \in DOMAIN stack :
        /\ stack[k].pc # "params" /\ stack[m].pc # "params"
        /\ \E j \in DOMAIN Declared(stack[k]) :
              LET p == Declared(stack[k])[j]
              IN /\ p.name \in DOMAIN invs[stack[k].id].entry
                 /\ p.default # <<>>
                 /\ p.default[1] # stack[k].ctx[p.name]
        /\ \E j \in DOMAIN Declared(stack[m]) :
              LET p == Declared(stack[m])[j]
              IN /\ p.name \notin DOMAIN invs[stack[m].id].entry
                 /\ stack[m].ctx[p.name] = p.default[1]

\* Where the task named name stands in the registry tasks.
IndexOf(tasks, name) == CHOOSE k \in DOMAIN tasks : tasks[k][1] = name

\* C16: get_all_standalone_task_names lists a task exactly when every
\* parameter it declares has a default, a task that declares none
\* included, each once, in the order the registry holds them; that is
\* exactly when has_no_default_params is false of the task.
C16_StandaloneListing ==
    (fn_input.fn = "get_all_standalone_task_names" /\ fn_output # <<>>) =>
        LET tasks == fn_input.self.tasks
            names == fn_output[1]
        IN /\ \A k \in DOMAIN tasks :
                 LET params == tasks[k][2].params
                     all_default == \A j \in DOMAIN params : params[j].default # <<>>
                 IN /\ all_default <=> (\E q \in DOMAIN names : names[q] = tasks[k][1])
                    /\ all_default <=> ~has_no_default_params(tasks[k][2])
           /\ \A q, r \in DOMAIN names :
                 q < r => IndexOf(tasks, names[q]) < IndexOf(tasks, names[r])

\* Three tasks registered as c, a, b: c with a default, a with a required
\* parameter after a default, b with no parameter; c and b are listed, in
\* that order.
C16_Witness ==
    /\ fn_input.fn = "get_all_standalone_task_names"
    /\ Len(fn_input.self.tasks) = 3
    /\ fn_input.self.tasks[1] =
          <<"c", Task(<<>>, <<>>, <<>>, <<>>, <<Param("x", <<<<"1">>>>)>>)>>
    /\ fn_input.self.tasks[2] =
          <<"a", Task(<<>>, <<>>, <<>>, <<>>,
                      <<Param("x", <<<<"1">>>>), Param("y", <<>>)>>)>>
    /\ fn_input.self.tasks[3] = <<"b", Task(<<>>, <<>>, <<>>, <<>>, <<>>)>>
    /\ fn_output = <<(<<"c", "b">>)>>

\* What a step may do to the registry handles: the registry main holds
\* changes only at the selection, with main the only holder, to a loaded
\* registry, and leaves the run's handle, thread and activations alone; a
\* handle a run holds before and after the step is the same registry.
HandlesStep ==
    /\ (taskerie' # taskerie) =>
          (/\ main_pc = "select" /\ main_pc' = "select"
           /\ Arc_strong_count = 1
           /\ taskerie' \in Registries
           /\ UNCHANGED <<executor_taskerie, thread, stack>>)
    /\ (executor_taskerie # <<>> /\ executor_taskerie' # <<>>) =>
          (executor_taskerie' = executor_taskerie)

\* C17: whenever main is at the selection, where a reload can be chosen,
\* it holds the only handle of the registry (Arc::strong_count is 1) and no
\* run is in flight; the registry main holds changes only by a reload, to a
\* newly loaded registry, and a reload leaves the registry of a run as it
\* is; as long as a run holds its handle, the registry behind it is the one
\* the run was started with.
C17_ReloadWithoutRunInFlight ==
    /\ [](main_pc = "select" =>
            (Arc_strong_count = 1 /\ thread \in {"none", "finished"}))
    /\ [](executor_taskerie # <<>> => executor_taskerie = <<taskerie>>)
    /\ [][HandlesStep]_vars

\* Main has reloaded after a run that ended well: it is back at the
\* selection with the thread of that run finished and its Ok joined, and
\* the history, which would hold that run's activation, has started again.
C17_Witness ==
    /\ main_pc = "select"
    /\ thread = "finished"
    /\ result = OkResult
    /\ invs = <<>>
    /\ Arc_strong_count = 1

\* Every action of a configured task, hooks included.
ConfigActions(task) == task.actions \o task.on_success \o task.on_failure

AllParse(task) ==
    \A j \in DOMAIN ConfigActions(task) :
        Action_try_from(ConfigActions(task)[j]).ok

\* C18: load returns a registry only if every primary, on_success and
\* on_failure action of every configured task parses; when some action
\* does not, load returns an Err, which carries no registry; the registry
\* load returns holds every configured task, under its name, in the order
\* of the configuration, with as many actions in each list as configured.
C18_LoadAllOrNothing ==
    (fn_input.fn = "load" /\ fn_output # <<>>) =>
        LET config == fn_input.config
            loaded == fn_output[1]
            all_parse ==
                /\ config.ok
                /\ \A k \in DOMAIN config.val.tasks :
                       AllParse(config.val.tasks[k][2])
        IN /\ loaded.ok => all_parse
           /\ (config.ok /\ ~all_parse) =>
                 (~loaded.ok /\ DOMAIN loaded = {"ok", "err"})
           /\ loaded.ok =>
                 /\ Len(loaded.val.tasks) = Len(config.val.tasks)
                 /\ \A k \in DOMAIN config.val.tasks :
                       LET from == config.val.tasks[k]
                           to == loaded.val.tasks[k]
                       IN /\ to[1] = from[1]
                          /\ Len(to[2].actions) = Len(from[2].actions)
                          /\ Len(to[2].on_success) = Len(from[2].on_success)
                          /\ Len(to[2].on_failure) = Len(from[2].on_failure)

\* A configuration of three tasks: the first two have actions that all
\* parse, the last a group left open in its second on_failure action and
\* nothing else wrong; load returned the Err of that action.
C18_Witness ==
    /\ fn_input.fn = "load"
    /\ fn_input.config.ok
    /\ Len(fn_input.config.val.tasks) = 3
    /\ \A k \in {1, 2} :
          /\ fn_input.config.val.tasks[k][2].actions # <<>>
          /\ AllParse(fn_input.config.val.tasks[k][2])
    /\ LET last == fn_input.config.val.tasks[3][2]
       IN /\ \A j \in DOMAIN last.actions : Action_try_from(last.actions[j]).ok
          /\ last.on_success = <<>>
          /\ Len(last.on_failure) = 2
          /\ Action_try_from(last.on_failure[1]).ok
          /\ ~Action_try_from(last.on_failure[2]).ok
    /\ fn_output = <<Err(<<"Error at", 5, "argument group must be closed">>)>>

\* The fields of a line: the longest runs of chars between whitespace that
\* stands outside a pair of quotes, from left to right.
Fields(s) ==
    LET inside(k) == Cardinality({j \in 1 .. k : s[j] = "\""}) % 2 = 1
        separator(k) == is_whitespace(s[k]) /\ ~inside(k)
        starts == {k \in DOMAIN s :
                      ~separator(k) /\ (k = 1 \/ separator(k - 1))}
        start(i) == CHOOSE k \in starts :
                        Cardinality({j \in starts : j < k}) = i - 1
        end(k) == CHOOSE e \in k .. Len(s) :
                      /\ \A j \in k .. e : ~separator(j)
                      /\ e = Len(s) \/ separator(e + 1)
    IN [i \in 1 .. Cardinality(starts) |-> SubSeq(s, start(i), end(start(i)))]

Bare(field) == \A k \in DOMAIN field : field[k] \notin {"\"", "$"}

Quoted(field) ==
    /\ Len(field) >= 2
    /\ field[1] = "\"" /\ field[Len(field)] = "\""
    /\ Bare(SubSeq(field, 2, Len(field) - 1))

\* A command name: a bare field that does not start with the task prefix.
CommandName(field) == Bare(field) /\ field[1] # ACTION_NAME_TASK_PREFIX

\* C19: for a line of bare tokens with whitespace between them, the first
\* not starting with the task prefix, from_str returns the action whose
\* name is the first token, whose target is External, and whose arguments
\* are the other tokens in the order of the line, one argument for each
\* token, made of one Literal that holds the token.
C19_BareTokensInOrder ==
    (fn_input.fn = "from_str" /\ fn_output # <<>>) =>
        LET tokens == Fields(fn_input.action_str)
        IN (/\ tokens # <<>>
            /\ CommandName(tokens[1])
            /\ \A k \in DOMAIN tokens : Bare(tokens[k])) =>
               fn_output[1] =
                   Ok([name |-> tokens[1],
                       arguments |-> [k \in 1 .. Len(tokens) - 1 |->
                                         Argument(<<Literal(tokens[k + 1])>>)],
                       target |-> "External"])

\* The line `a b a` has been parsed: name a, arguments b then a.
C19_Witness ==
    /\ fn_input.fn = "from_str"
    /\ fn_input.action_str = <<"a", " ", "b", " ", "a">>
    /\ parser # <<>>
    /\ parser[1].state = Done
    /\ fn_output =
          <<Ok([name |-> <<"a">>,
                arguments |-> <<Argument(<<Literal(<<"b">>)>>),
                                Argument(<<Literal(<<"a">>)>>)>>,
                target |-> "External"])>>

\* C20: in a line made of a command name and of fields that are each a
\* bare token or a quoted group, a group being a quote, a text without
\* quote or $, and a quote, every group gives exactly one argument, at the
\* place of the group among the fields, made of one Literal that holds the
\* text between the quotes, whitespace included and quotes left out; for
\* the group "" that is the empty Literal.
C20_QuotedGroupIsOneArgument ==
    (fn_input.fn = "from_str" /\ fn_output # <<>>) =>
        LET fields == Fields(fn_input.action_str)
            text(field) == IF Quoted(field)
                           THEN SubSeq(field, 2, Len(field) - 1)
                           ELSE field
        IN (/\ fields # <<>>
            /\ CommandName(fields[1])
            /\ \A k \in 2 .. Len(fields) : Bare(fields[k]) \/ Quoted(fields[k])
            /\ \E k \in 2 .. Len(fields) : Quoted(fields[k])) =>
               /\ fn_output[1].ok
               /\ Len(fn_output[1].val.arguments) = Len(fields) - 1
               /\ \A k \in 2 .. Len(fields) :
                      Quoted(fields[k]) =>
                          fn_output[1].val.arguments[k - 1] =
                              Argument(<<Literal(text(fields[k]))>>)

\* The line `a "b a" ""` has been parsed: two arguments, the first the
\* Literal `b a`, the second the empty Literal.
C20_Witness ==
    /\ fn_input.fn = "from_str"
    /\ fn_input.action_str =
          <<"a", " ", "\"", "b", " ", "a", "\"", " ", "\"", "\"">>
    /\ fn_output # <<>>
    /\ fn_output[1].ok
    /\ fn_output[1].val.arguments =
          <<Argument(<<Literal(<<"b", " ", "a">>)>>),
            Argument(<<Literal(<<>>)>>)>>

\* The k-th least element of a set of numbers.
Nth(S, k) == CHOOSE n \in S : Cardinality({j \in S : j < n}) = k - 1

CharsAt(field, c) == {k \in DOMAIN field : field[k] = c}

\* A token of literal text and interpolations: no quote, and its $ and }
\* pair up in turn, each $ followed by { and a name of at least one char.
Mixed(field) ==
    LET opens == CharsAt(field, "$")
        closes == CharsAt(field, "}")
    IN /\ CharsAt(field, "\"") = {}
       /\ Cardinality(opens) = Cardinality(closes)
       /\ \A i \in 1 .. Cardinality(opens) :
              /\ Nth(opens, i) + 2 < Nth(closes, i)
              /\ field[Nth(opens, i) + 1] = "{"
              /\ i < Cardinality(opens) => Nth(closes, i) < Nth(opens, i + 1)

NotEmptyLiteral(component) ==
    component.kind = "Interpolated" \/ component.text # <<>>

\* The spans of a Mixed token from left to right: the text before each
\* interpolation, its name, and the text after the last, empty texts
\* left out.
Spans(field) ==
    LET opens == CharsAt(field, "$")
        closes == CharsAt(field, "}")
        n == Cardinality(opens)
        from(i) == IF i = 1 THEN 1 ELSE Nth(closes, i - 1) + 1
        to(i) == IF i = n + 1 THEN Len(field) ELSE Nth(opens, i) - 1
    IN SelectSeq([j \in 1 .. 2 * n + 1 |->
                     IF j % 2 = 1
                     THEN Literal(SubSeq(field, from((j + 1) \div 2),
                                         to((j + 1) \div 2)))
                     ELSE Interpolated(SubSeq(field, Nth(opens, j \div 2) + 2,
                                              Nth(closes, j \div 2) - 1))],
                 NotEmptyLiteral)

\* C21: in a line whose name has neither quote nor $ and whose other
\* tokens are each literal text and ${name} spans written without
\* whitespace between them, every token is one argument, and its
\* components are the spans of the token from left to right; and no
\* successful parse has more arguments than the line has fields after the
\* first, a field ending only at whitespace outside quotes.
C21_AdjacentSpansAreOneArgument ==
    (fn_input.fn = "from_str" /\ fn_output # <<>>) =>
        LET fields == Fields(fn_input.action_str)
            line == fn_input.action_str
        IN /\ (/\ fields # <<>>
               /\ Bare(fields[1])
               /\ fields[1] # <<ACTION_NAME_TASK_PREFIX>>
               /\ \A k \in 2 .. Len(fields) : Mixed(fields[k])) =>
                  /\ fn_output[1].ok
                  /\ fn_output[1].val.arguments =
                         [k \in 1 .. Len(fields) - 1 |->
                             Argument(Spans(fields[k + 1]))]
           /\ (/\ fn_output[1].ok
               /\ Bare(fields[1])
               /\ CharsAt(line, "\"") = {} \/ CharsAt(line, "$") = {}) =>
                  Len(fn_output[1].val.arguments) <= Len(fields) - 1

\* The line `a ${a}b${b}` has been parsed: one argument, made of the
\* interpolation a, the literal b and the interpolation b.
C21_Witness ==
    /\ fn_input.fn = "from_str"
    /\ fn_input.action_str =
          <<"a", " ", "$", "{", "a", "}", "b", "$", "{", "b", "}">>
    /\ fn_output # <<>>
    /\ fn_output[1].ok
    /\ fn_output[1].val.arguments =
          <<Argument(<<Interpolated(<<"a">>), Literal(<<"b">>),
                       Interpolated(<<"b">>)>>)>>

\* A --name token.
DashName(field) ==
    Len(field) >= 3 /\ field[1] = "-" /\ field[2] = "-" /\ Bare(field)

\* C22: in a line made of the task prefix, a name, and one or more pairs
\* of a --name token and a value, from_str returns an action with target
\* Task and that name in which each pair is one binding: as many bound
\* values as pairs, the k-th made of the spans of the k-th value, the
\* --name tokens naming the values and not being values themselves
\* (`_build --env ${e}` binds the one value [Variable e] to env).
C22_NamedParameterBindings ==
    (fn_input.fn = "from_str" /\ fn_output # <<>>) =>
        LET fields == Fields(fn_input.action_str)
        IN (/\ Len(fields) >= 3 /\ Len(fields) % 2 = 1
            /\ Len(fields[1]) >= 2
            /\ fields[1][1] = ACTION_NAME_TASK_PREFIX
            /\ Bare(fields[1])
            /\ \A k \in 2 .. Len(fields) :
                   IF k % 2 = 0 THEN DashName(fields[k]) ELSE Mixed(fields[k])) =>
               /\ fn_output[1].ok
               /\ fn_output[1].val.target = "Task"
               /\ fn_output[1].val.name = Tail(fields[1])
               /\ Len(fn_output[1].val.arguments) = (Len(fields) - 1) \div 2
               /\ \A i \in 1 .. (Len(fields) - 1) \div 2 :
                      fn_output[1].val.arguments[i] =
                          Argument(Spans(fields[2 * i + 1]))

\* C23: every action from_str returns has a name that is not empty, and a
\* line whose name token is empty, the task prefix standing alone or
\* before whitespace, is rejected.
C23_NameIsNotEmpty ==
    (fn_input.fn = "from_str" /\ fn_output # <<>>) =>
        LET line == trim(fn_input.action_str)
        IN /\ fn_output[1].ok => fn_output[1].val.name # <<>>
           /\ (/\ line # <<>>
               /\ line[1] = ACTION_NAME_TASK_PREFIX
               /\ (Len(line) = 1 \/ is_whitespace(line[2]))) =>
                  ~fn_output[1].ok

\* The name token of a trimmed line: its characters before the first
\* whitespace.
NameToken(line) ==
    LET spaces == CharsAt(line, " ")
    IN IF spaces = {} THEN line
       ELSE SubSeq(line, 1, Nth(spaces, 1) - 1)

SyntaxErrors ==
    { "argument group must be closed", "interpolation must be closed",
      "$ must be followed by {", "Action must have a name" }

\* C25: every error from_str returns for an unterminated quote, an
\* unterminated interpolation, a $ not followed by { or an empty name
\* token carries the offset at which it was detected.
C25_SyntaxErrorsCarryOffset ==
    (/\ fn_input.fn = "from_str"
     /\ fn_output # <<>>
     /\ ~fn_output[1].ok
     /\ fn_output[1].err[Len(fn_output[1].err)] \in SyntaxErrors) =>
        /\ Len(fn_output[1].err) = 3
        /\ fn_output[1].err[1] = "Error at"
        /\ fn_output[1].err[2] \in 1 .. Len(fn_input.action_str) + 1

\* What follows the name token of a trimmed line.
AfterName(line) == SubSeq(line, Len(NameToken(line)) + 1, Len(line))

\* The text ends inside a quoted group: it has no $ and an odd number of
\* quotes.
EndsInGroup(text) ==
    /\ CharsAt(text, "$") = {}
    /\ Cardinality(CharsAt(text, "\"")) % 2 = 1

\* The text ends inside an interpolation: it has no quote, and a ${ with no
\* } anywhere after it.
EndsInInterpolation(text) ==
    /\ CharsAt(text, "\"") = {}
    /\ \E i \in CharsAt(text, "$") :
           /\ i < Len(text)
           /\ text[i + 1] = "{"
           /\ \A j \in CharsAt(text, "}") : j < i

\* The states of the parser inside a group or an interpolation, with the
\* message of the error each gives at the end of the input.
OpenStates ==
    { <<ReadArg("LiteralGroup"), "argument group must be closed">>,
      <<ReadArg("Interpolated"), "interpolation must be closed">>,
      <<ReadArg("InterpolatedInGroup"), "interpolation must be closed">> }

\* C26: from_str returns no action for a line that ends inside an open
\* quoted group or an open interpolation, whatever stands before: a parse
\* that ends with the parser in a group or an interpolation and nothing
\* left to read ends with the error of that state at that offset, and
\* every line whose text after the name ends inside a group or an
\* interpolation is rejected.
C26_OpenConstructIsRejected ==
    (fn_input.fn = "from_str" /\ fn_output # <<>>) =>
        /\ \A open \in OpenStates :
               (/\ parser # <<>>
                /\ parser[1].state = open[1]
                /\ parser[1].remainder = <<>>) =>
                   fn_output[1] =
                       Err(<<"Error at", parser[1].read_count + 1, open[2]>>)
        /\ LET text == AfterName(trim(fn_input.action_str))
           IN (EndsInGroup(text) \/ EndsInInterpolation(text)) =>
                  ~fn_output[1].ok

\* The line `a "b ${a` has been parsed: it ends inside an interpolation
\* that is inside a group, after a literal, and is rejected at its end.
C26_Witness ==
    /\ fn_input.fn = "from_str"
    /\ fn_input.action_str = <<"a", " ", "\"", "b", " ", "$", "{", "a">>
    /\ parser # <<>>
    /\ parser[1].state = ReadArg("InterpolatedInGroup")
    /\ parser[1].remainder = <<>>
    /\ fn_output = <<Err(<<"Error at", 9, "interpolation must be closed">>)>>

\* The character at i of the text is the $ of a ${.
OpensSpan(text, i) ==
    /\ i < Len(text)
    /\ text[i] = "$"
    /\ text[i + 1] = "{"

\* The character at i lies inside an interpolation: after a ${ with no }
\* between the two.
InsideSpan(text, i) ==
    \E j \in 1 .. i - 1 :
        /\ OpensSpan(text, j)
        /\ \A k \in CharsAt(text, "}") : k < j \/ k > i

\* C27: after the name token, in a bare token and in a quoted group, in a
\* command line and in a task line alike, a $ that is not followed by {
\* makes from_str fail: in the text of a line that is parsed every $
\* outside an interpolation is followed by {, and a line whose first $
\* after the name is not followed by { is rejected. A $ inside the name
\* token is a character of the name.
C27_DollarNeedsBrace ==
    (fn_input.fn = "from_str" /\ fn_output # <<>>) =>
        LET line == trim(fn_input.action_str)
            token == NameToken(line)
            text == AfterName(line)
            dollars == CharsAt(text, "$")
        IN /\ fn_output[1].ok =>
                  \A i \in dollars :
                      OpensSpan(text, i) \/ InsideSpan(text, i)
           /\ (dollars # {} /\ ~OpensSpan(text, Nth(dollars, 1))) =>
                  ~fn_output[1].ok
           /\ (fn_output[1].ok /\ CharsAt(token, "$") # {}) =>
                  /\ CharsAt(fn_output[1].val.name, "$") # {}
                  /\ fn_output[1].val.name \in {token, Tail(token)}

\* The task line `_b "b$a"` has been parsed: the $ in its group is
\* followed by a letter and the line is rejected for it.
C27_Witness ==
    /\ fn_input.fn = "from_str"
    /\ fn_input.action_str = <<"_", "b", " ", "\"", "b", "$", "a", "\"">>
    /\ parser # <<>>
    /\ parser[1].state = ReadArg("LiteralGroup")
    /\ parser[1].action.target = "Task"
    /\ fn_output = <<Err(<<"$ must be followed by {">>)>>

\* The names of the interpolated components of an action.
InterpolatedNames(action) ==
    UNION { { action.arguments[i].components[j].name :
                j \in { k \in DOMAIN action.arguments[i].components :
                          action.arguments[i].components[k].kind =
                              "Interpolated" } } :
            i \in DOMAIN action.arguments }

\* C28: an interpolation with no name, ${}, is rejected with the error
\* "interpolated value cannot be empty", in a bare token and in a quoted
\* group: a parse whose interpolation meets its } with nothing read ends
\* with that error, a line whose first $ after a name opens ${} with at
\* most the quote of its group before it is rejected with that error, and
\* no returned action has an interpolated component with an empty name.
C28_EmptyInterpolationIsRejected ==
    (fn_input.fn = "from_str" /\ fn_output # <<>>) =>
        LET line == trim(fn_input.action_str)
            text == AfterName(line)
            dollars == CharsAt(text, "$")
        IN /\ fn_output[1].ok =>
                  <<>> \notin InterpolatedNames(fn_output[1].val)
           /\ (/\ parser # <<>>
               /\ parser[1].state \in
                      {ReadArg("Interpolated"), ReadArg("InterpolatedInGroup")}
               /\ parser[1].arg_buf = <<>>
               /\ parser[1].remainder # <<>>
               /\ parser[1].remainder[1] = "}") =>
                  fn_output[1] = Err(<<"interpolated value cannot be empty">>)
           /\ (/\ dollars # {}
               /\ OpensSpan(text, Nth(dollars, 1))
               /\ Nth(dollars, 1) + 2 <= Len(text)
               /\ text[Nth(dollars, 1) + 2] = "}"
               /\ NameToken(line) # <<ACTION_NAME_TASK_PREFIX>>
               /\ Cardinality({q \in CharsAt(text, "\"") :
                                   q < Nth(dollars, 1)}) <= 1) =>
                  fn_output[1] = Err(<<"interpolated value cannot be empty">>)

\* The line `a "${}"` has been parsed: the interpolation in its group has
\* no name and the line is rejected for it.
C28_Witness ==
    /\ fn_input.fn = "from_str"
    /\ fn_input.action_str = <<"a", " ", "\"", "$", "{", "}", "\"">>
    /\ parser # <<>>
    /\ parser[1].state = ReadArg("InterpolatedInGroup")
    /\ parser[1].arg_buf = <<>>
    /\ fn_output = <<Err(<<"interpolated value cannot be empty">>)>>

\* C29: the name of an interpolated component is a run of characters that
\* are neither whitespace nor }: no action from_str returns has an
\* interpolated component with whitespace or } in its name.
C29_VariableNameCharacters ==
    (fn_input.fn = "from_str" /\ fn_output # <<>> /\ fn_output[1].ok) =>
        \A name \in InterpolatedNames(fn_output[1].val) :
            \A i \in DOMAIN name :
                ~is_whitespace(name[i]) /\ name[i] # "}"

\* The errors of the two assertions of the Done state.
DoneErrors ==
    { Err(<<"Unfinished action">>),
      Err(<<"Parsing finished with remaining character">>) }

\* In Done nothing is buffered and nothing is left to read.
DoneIsClean ==
    /\ (parser # <<>> /\ parser[1].state = Done) =>
           /\ parser[1].arg_buf = <<>>
           /\ parser[1].arg_component_buf = <<>>
           /\ parser[1].remainder = <<>>
    /\ fn_output # <<>> => fn_output[1] \notin DoneErrors

\* A turn leaves the buffered components and the arguments as they are,
\* or buffers one component more, or empties the buffer into one new
\* argument, the last one, made of the buffered components and of the
\* literal the turn ended if it ended one.
ComponentsEmitted ==
    (parser # <<>> /\ parser' # <<>>) =>
        LET old == parser[1]
            new == parser'[1]
        IN \/ /\ new.arg_component_buf = old.arg_component_buf
              /\ new.action.arguments = old.action.arguments
           \/ /\ Len(new.arg_component_buf) = Len(old.arg_component_buf) + 1
              /\ SubSeq(new.arg_component_buf, 1,
                        Len(old.arg_component_buf)) = old.arg_component_buf
              /\ new.action.arguments = old.action.arguments
           \/ /\ new.arg_component_buf = <<>>
              /\ \E ended \in {<<>>, <<Literal(old.arg_buf)>>} :
                     /\ old.arg_component_buf \o ended # <<>>
                     /\ new.action.arguments =
                            Append(old.action.arguments,
                                   Argument(old.arg_component_buf \o ended))

\* C30: whenever the parser is in Done its character buffer and its
\* component buffer are empty and its input is read to the end, so that no
\* parse ends with "Unfinished action" or "Parsing finished with remaining
\* character"; and the component buffer is only ever emptied into an
\* argument, so that every component buffered is in an argument by then.
C30_DoneWithNothingLeft ==
    /\ []DoneIsClean
    /\ [][ComponentsEmitted]_vars

\* A parse has come to Done and returned an action of two arguments, the
\* second of more than one component.
C30_Witness ==
    /\ parser # <<>>
    /\ parser[1].state = Done
    /\ parser[1].read_count > Len(trim(fn_input.action_str))
    /\ fn_output = <<Ok(parser[1].action)>>
    /\ Len(parser[1].action.arguments) = 2
    /\ Len(parser[1].action.arguments[2].components) > 1

\* A turn has taken the parser from one sub-state of ReadArg to another.
SubStateChanged ==
    /\ parser # <<>>
    /\ parser' # <<>>
    /\ parser[1].state[1] = "ReadArg"
    /\ parser'[1].state[1] = "ReadArg"
    /\ parser'[1].state # parser[1].state

\* C31: what is buffered is made a component at every change between the
\* sub-states of ReadArg (Literal, LiteralGroup, Interpolated,
\* InterpolatedInGroup): the parser enters the other sub-state with its
\* character buffer empty, so that no text read in one sub-state goes into
\* a component of the next.
C31_BufferEmptyOnSubStateEntry ==
    [][SubStateChanged => parser'[1].arg_buf = <<>>]_vars

\* The occurrences of {{ name }} in a text from the position given, left
\* to right: each starts at the first {{ that a }} follows and ends with
\* the first }} after its {{.
RECURSIVE Occurrences(_, _)
Occurrences(text, from) ==
    LET closes == {j \in 1 .. Len(text) - 1 : text[j] = "}" /\ text[j + 1] = "}"}
        opens == {i \in from .. Len(text) - 1 :
                     /\ text[i] = "{" /\ text[i + 1] = "{"
                     /\ \E j \in closes : j >= i + 2}
    IN IF opens = {} THEN <<>>
       ELSE LET i == Nth(opens, 1)
                j == Nth({c \in closes : c >= i + 2}, 1)
            IN <<[name |-> trim(SubSeq(text, i + 2, j - 1)),
                  first |-> i, last |-> j + 1]>>
               \o Occurrences(text, j + 2)

\* The text with each occurrence replaced by what values gives for its
\* name.
RECURSIVE Replaced(_, _, _, _)
Replaced(text, occurrences, from, values) ==
    IF occurrences = <<>> THEN SubSeq(text, from, Len(text))
    ELSE SubSeq(text, from, Head(occurrences).first - 1)
         \o values[Head(occurrences).name]
         \o Replaced(text, Tail(occurrences), Head(occurrences).last + 1,
                     values)

\* The characters of the text before position i that are in no occurrence.
OutsideBefore(occurrences, i) ==
    {p \in 1 .. i - 1 :
        \A k \in DOMAIN occurrences :
            p < occurrences[k].first \/ p > occurrences[k].last}

\* C32: from_str keeps the text without its {{ name }} occurrences and,
\* for each occurrence in order, its name and its offset in that stripped
\* text, the offsets never decreasing and none beyond the length of the
\* stripped text; and under a context that binds every name of the text,
\* render of what from_str returned is the text with each occurrence
\* replaced by the value of its name, however many occurrences there are,
\* repeated and adjacent ones included.
C32_InterpolatedStringRoundTrip ==
    (fn_input.fn = "InterpolatedString_from_str" /\ fn_output # <<>>) =>
        \A found \in {Occurrences(fn_input.val, 1)} :
        \A names \in {{found[k].name : k \in DOMAIN found}} :
        \A parts \in {fn_output[1].val.parts \o <<>>} :
           /\ fn_output[1].ok
           /\ fn_output[1].val.value =
                  Replaced(fn_input.val, found, 1, [n \in names |-> <<>>])
           /\ Len(parts) = Len(found)
           /\ \A k \in DOMAIN found :
                  /\ parts[k].name = found[k].name
                  /\ parts[k].start =
                         Cardinality(OutsideBefore(found, found[k].first))
                  /\ parts[k].start <= Len(fn_output[1].val.value)
                  /\ k > 1 => parts[k - 1].start <= parts[k].start
           /\ (/\ Len(fn_output) = 2
               /\ names \subseteq DOMAIN fn_input.param_context) =>
                  fn_output[2] =
                      Ok(Replaced(fn_input.val, found, 1,
                                  fn_input.param_context))

\* A text of three occurrences, two of them of the same name and two
\* adjacent, has been parsed and rendered under a context that binds both
\* names, to a text longer than the stripped one.
C32_Witness ==
    /\ fn_input.fn = "InterpolatedString_from_str"
    /\ Len(fn_output) = 2
    /\ fn_output[2].ok
    /\ Len(fn_output[1].val.parts) = 3
    /\ fn_output[1].val.parts[1].name = fn_output[1].val.parts[3].name
    /\ fn_output[1].val.parts[2].name # fn_output[1].val.parts[1].name
    /\ fn_output[1].val.parts[1].start = fn_output[1].val.parts[2].start
    /\ Len(fn_output[2].val) > Len(fn_output[1].val.value)

\* The component lists of the arguments of an action.
ComponentLists(action) ==
    {action.arguments[i].components : i \in DOMAIN action.arguments}

\* C33: the quotes of a group add no component. A line whose one argument
\* is a group holding a single interpolation is parsed to that argument
\* with the one interpolated component, and in no argument returned does
\* an empty literal stand last, after an interpolated component.
C33_QuotingAddsNoComponent ==
    (fn_input.fn = "from_str" /\ fn_output # <<>>) =>
        /\ fn_input.action_str =
               <<"_", "b", " ", "\"", "$", "{", "a", "}", "\"">> =>
                  fn_output[1] =
                      Ok([name |-> <<"b">>, target |-> "Task",
                          arguments |->
                              <<Argument(<<Interpolated(<<"a">>)>>)>>])
        /\ fn_output[1].ok =>
               \A components \in ComponentLists(fn_output[1].val) :
                   (/\ Len(components) >= 2
                    /\ components[Len(components) - 1].kind = "Interpolated") =>
                       components[Len(components)] # Literal(<<>>)

\* How far a state of the parser is on the way from Start to Done.
Rank(state) ==
    CASE state[1] = "Start" -> 0
      [] state[1] = "ReadName" -> 1
      [] state[1] = "ReadArg" -> 2
      [] state[1] = "Done" -> 3

\* A turn of the loop after which parse goes on.
TurnTaken == parser # <<>> /\ parser' # <<>> /\ parser' # parser

\* The characters a turn has taken from the input.
Consumed == Len(parser[1].remainder) - Len(parser'[1].remainder)

\* What is left to read is always an end of the line, the reads are
\* counted one by one and are at most two more than the line has
\* characters.
ReadsForward ==
    parser # <<>> =>
        LET line == trim(fn_input.action_str)
            left == Len(parser[1].remainder)
        IN /\ left <= Len(line)
           /\ parser[1].remainder = SubSeq(line, Len(line) - left + 1, Len(line))
           /\ parser[1].read_count >= Len(line) - left
           /\ parser[1].read_count <= Len(line) + 2

\* C34 as the specification has it: every turn of the loop takes exactly
\* one character or moves on from Start to ReadName to ReadArg to Done, no
\* character is read twice, the reads are at most the length of the line
\* plus two, and parse returns.
C34_OneCharacterPerStep ==
    /\ []ReadsForward
    /\ [][TurnTaken => (Consumed = 1 \/ Rank(parser'[1].state) > Rank(parser[1].state))]_vars
    /\ <>(fn_output # <<>>)

\* C34, amended: parse returns for every line and never goes back in it:
\* every turn of the loop takes one character, or two (a $ with the {
\* after it, the quote that closes a group with the whitespace after it),
\* or moves on from Start to ReadName to ReadArg to Done; what is left to
\* read is always an end of the line, and the reads are at most the length
\* of the line plus two.
C34_AmendedForwardAndTerminates ==
    /\ []ReadsForward
    /\ [][TurnTaken =>
             /\ Rank(parser'[1].state) >= Rank(parser[1].state)
             /\ parser'[1].read_count > parser[1].read_count
                    \/ Rank(parser'[1].state) > Rank(parser[1].state)
             /\ Consumed \in {1, 2}
                    \/ (/\ Consumed = 0
                        /\ Rank(parser'[1].state) > Rank(parser[1].state))]_vars
    /\ <>(fn_output # <<>>)

\* A line with a group and an interpolation has been parsed to its end:
\* two of its turns took two characters each, and the reads were two more
\* than its characters.
C34_Witness ==
    /\ fn_input.fn = "from_str"
    /\ fn_input.action_str = <<"_", "b", " ", "\"", "$", "{", "a", "}", "\"">>
    /\ parser # <<>>
    /\ parser[1].state = Done
    /\ parser[1].read_count = Len(fn_input.action_str) + 2
    /\ fn_output # <<>>
    /\ fn_output[1].ok

----------------------------------------------------------------------------
\* The tasks of registry that the actions of task name call.
Callees(registry, name) ==
    IF name \notin DOMAIN registry THEN {}
    ELSE {registry[name].actions[k].name :
            k \in {k \in DOMAIN registry[name].actions :
                      registry[name].actions[k].kind = "TaskCall"}}
         \cap DOMAIN registry

\* The tasks reached from task name by one call or more.
RECURSIVE CalledWithin(_, _, _)
CalledWithin(registry, names, hops) ==
    IF hops = 0 THEN {}
    ELSE LET called == UNION {Callees(registry, m) : m \in names}
         IN called \cup CalledWithin(registry, called, hops - 1)

CalledFrom(registry, name) ==
    CalledWithin(registry, {name}, Cardinality(DOMAIN registry))

\* No task that a run of task name can enter calls itself, directly or
\* through other tasks.
AcyclicFrom(registry, name) ==
    \A m \in {name} \cup CalledFrom(registry, name) :
        m \in DOMAIN registry => m \notin CalledFrom(registry, m)

ThreadEnded == thread \in {"returned", "finished"}

\* The run ended with Ok, every activation had its required parameters and
\* every action that was started succeeded.
RanWithoutFailure ==
    /\ ThreadEnded
    /\ result = OkResult
    /\ \A i \in DOMAIN invs :
          /\ invs[i].bound = "ok"
          /\ \A k \in DOMAIN invs[i].executed :
                invs[i].executed[k].status = Exited(0)

\* The errors a run can end with: an undefined task, a variable without a
\* value, and the failures of the process calls.
RunErrors ==
    {"Task not found", "Task is not defined", "popen", "wait", "read",
     "Could not find value for param"}

\* C35: a run on a registry whose calls from the started task form no
\* circle ends, given that every process ends; a run through a circle of
\* calls never ends with every action succeeded, and no run ends with an
\* error about the circle: with parameters bound and actions succeeding
\* it enters the same task again and again.
C35_NoCycleGuard ==
    /\ []((thread = "spawned" /\ AcyclicFrom(taskerie, selected))
            => <>ThreadEnded)
    /\ [](RanWithoutFailure => AcyclicFrom(taskerie, selected))
    /\ [](result.kind = "err" => result.err[1] \in RunErrors)
    /\ [][(/\ thread = "running"
           /\ Top.pc = "loop"
           /\ TopTask.actions[Top.idx].kind = "TaskCall"
           /\ TopTask.actions[Top.idx].name \in {stack[j].task : j \in DOMAIN stack}
           /\ stack' # stack
           /\ thread' = "running")
          => Len(stack') = Len(stack) + 1]_vars

\* The leaf task is active MaxDepth times, each activation called by the
\* one below it.
C35_Witness ==
    /\ Len(stack) = MaxDepth
    /\ \A j \in DOMAIN stack : stack[j].task = "leaf"

----------------------------------------------------------------------------
\* The messages that stand alone or open a command, and those sent for a
\* command that is open.
Opening ==
    {"MissingRequiredTaskParameter", "WorkingDirectoryNotFound", "AboutToRunCommand"}
Completion == {"CommandSucceeded", "CommandFailed"}
WithinCommand == {"CommandOutput"} \cup Completion

\* C36: the messages of a run read as
\* (MissingRequiredTaskParameter | WorkingDirectoryNotFound |
\*  AboutToRunCommand CommandOutput* (CommandSucceeded | CommandFailed))*
\* or a prefix of it: an output or completion message comes right after the
\* AboutToRunCommand or an output of the same action of the same
\* activation, and any other message comes first or right after a
\* completion or a message that stands alone.
C36_EventGrammar ==
    \A i \in DOMAIN sent :
        /\ sent[i].type \in Opening \cup WithinCommand
        /\ sent[i].type \in WithinCommand =>
              /\ i > 1
              /\ sent[i - 1].type \in {"AboutToRunCommand", "CommandOutput"}
              /\ sent[i - 1].inv = sent[i].inv
              /\ sent[i - 1].idx = sent[i].idx
        /\ (sent[i].type \in Opening /\ i > 1) =>
              sent[i - 1].type \in
                  Completion \cup {"MissingRequiredTaskParameter",
                                   "WorkingDirectoryNotFound"}

\* A run that a hard error ended inside the command of a called task,
\* after a command of another activation had completed with output.
C36_Witness ==
    /\ result.kind = "err"
    /\ sent # <<>>
    /\ Last(sent).type \in {"AboutToRunCommand", "CommandOutput"}
    /\ \E i, j \in DOMAIN sent :
          /\ i < j
          /\ sent[i].type = "CommandOutput"
          /\ sent[j].type = "AboutToRunCommand"
          /\ sent[i].inv # sent[j].inv

----------------------------------------------------------------------------
\* The working directory of started action u as its activation renders it.
RenderedDirectory(u) ==
    LET task == taskerie[invs[u[1]].task]
    IN IF task.working_directory = <<>> THEN Ok(<<".", "/">>)
       ELSE render(task.working_directory[1], BoundContext(u[1]))

\* The command text of started action u as its activation renders it.
RenderedText(u) == render(ActionOf(u[1], u[2]).command, BoundContext(u[1]))

StartedCommands == {u \in Started : ActionOf(u[1], u[2]).kind = "Command"}

\* The messages sent for started action u.
SentFor(u, type) ==
    Positions(type, u[1], invs[u[1]].executed[u[2]].idx)

\* C37: AboutToRunCommand is sent for a command only when its directory
\* rendered and resolved and its text rendered, and it carries both; a
\* text with an unbound variable in a directory that resolved ends the
\* run with the render error and without AboutToRunCommand; a directory
\* that is not found is reported by WorkingDirectoryNotFound whatever the
\* text is, the action yields Undetermined and no error comes from it.
C37_AboutAfterBothRendered ==
    \A u \in StartedCommands :
        LET e == invs[u[1]].executed[u[2]]
            dir == RenderedDirectory(u)
            text == RenderedText(u)
        IN /\ \A p \in SentFor(u, "AboutToRunCommand") :
                 /\ dir.ok /\ dir.val \in DOMAIN Canonical /\ text.ok
                 /\ sent[p].command = text.val
                 /\ sent[p].working_directory = Canonical[dir.val]
           /\ (dir.ok /\ dir.val \in DOMAIN Canonical /\ ~text.ok) =>
                 /\ SentFor(u, "AboutToRunCommand") = {}
                 /\ result = ErrResult(text.err)
                 /\ Len(sent) = e.at
           /\ (dir.ok /\ dir.val \notin DOMAIN Canonical) =>
                 /\ SentFor(u, "AboutToRunCommand") = {}
                 /\ SentFor(u, "WorkingDirectoryNotFound") = {e.at + 1}
                 /\ sent[e.at + 1].path = dir.val
                 /\ e.status = Undetermined
                 /\ ~text.ok => result # ErrResult(text.err)

\* WorkingDirectoryNotFound has been sent for a command whose text names a
\* variable without a value.
C37_Witness ==
    \E u \in StartedCommands :
        /\ SentFor(u, "WorkingDirectoryNotFound") # {}
        /\ ~RenderedText(u).ok

----------------------------------------------------------------------------
\* from_str returned an error that carries an offset.
PositionedError ==
    /\ fn_input.fn = "from_str"
    /\ fn_output # <<>>
    /\ ~fn_output[1].ok
    /\ fn_output[1].err[1] = "Error at"

\* C38: the offset of every error that carries one is the number of
\* characters of the trimmed line plus one, wherever in the line the
\* quote, the interpolation or the $ stands; the line `_my_task "` gives
\* "Error at 11: argument group must be closed".
C38_OffsetIsTrimmedLengthPlusOne ==
    /\ PositionedError =>
          /\ fn_output[1].err[2] = Len(trim(fn_input.action_str)) + 1
          /\ fn_output[1].err[3] \in
                {"argument group must be closed", "interpolation must be closed",
                 "$ must be followed by {"}
    /\ (/\ fn_input.fn = "from_str"
        /\ fn_input.action_str = <<"_", "m", "y", "_", "t", "a", "s", "k", " ", "\"">>
        /\ fn_output # <<>>) =>
          fn_output[1] = Err(<<"Error at", 11, "argument group must be closed">>)

\* An interpolation left open inside a group that was opened six
\* characters before the end of the line.
C38_Witness ==
    /\ PositionedError
    /\ fn_input.action_str = <<"a", " ", "\"", "b", " ", "$", "{", "a">>
    /\ fn_output[1].err[2] = 9

----------------------------------------------------------------------------
\* TargetTask::from_str returned Ok.
TargetTaskAccepted ==
    /\ fn_input.fn = "TargetTask_from_str"
    /\ fn_output # <<>>
    /\ fn_output[1].ok

\* C39: from_str returns Ok only when it has read the text to its end:
\* whatever follows the task name and is not a run of `--name value`
\* pairs, text that gives no token included, is an error, and nothing of
\* the text is left out of what is returned.
C39_NothingIsDropped ==
    TargetTaskAccepted => trim(parser[1].lexer) = <<>>

====
